---- MODULE Spec2Model ----
(***************************************************************************)
(* A model of evmql: the in-memory TTL cache (internal/cache/cache.go) and *)
(* the query execution engine with its concurrent range scanner            *)
(* (internal/executor/executor.go).                                        *)
(***************************************************************************)
EXTENDS Integers, Sequences, FiniteSets, TLC

(***************************************************************************)
(* Bounds of the model.                                                    *)
(***************************************************************************)
MaxTime == 2
MaxCap == 2
MaxBlock == 2
MaxWorkers == 2

(***************************************************************************)
(* Input domains.                                                          *)
(***************************************************************************)
Keys == {"", "k1", "k2"}
Values == {"v1", "v2"}
TTLs == {0, 2}
DefaultTTLs == {1}
None == "<nil>"

VARIABLES
    \* internal/cache/cache.go: InMemoryCache
    items,            \* InMemoryCache.items: key -> [value, expiration]
    maxItems,         \* InMemoryCache.maxItems
    defaultTTL,       \* InMemoryCache.defaultTTL
    now,              \* the clock read by time.Now()
    written,          \* history: per key, the last Set still in force
    lastOp,           \* the last cache call and what it returned
    mu,               \* InMemoryCache.mu: the goroutines holding the RWMutex
    gcall,            \* the cache call each calling goroutine is in
    cleanupEvery,     \* InMemoryCache.cleanupEvery
    stopCleanup,      \* InMemoryCache.stopCleanup: "open" or "closed"
    spc,              \* position of the cleanupLoop goroutine
    \* internal/executor/executor.go: QueryExecutor and one Execute call
    maxWorkers,       \* QueryExecutor.maxWorkers
    cacheKind,        \* QueryExecutor.cache: "noop" or "mem"
    query,            \* the Query passed to Execute
    ctxDerived,       \* Execute attached its own timeout (defer cancel pending)
    ctxDone,          \* ctx.Err() != nil
    mpc,              \* position of the calling goroutine
    fromBlock,        \* local fromBlock of getTransactionsConcurrent
    toBlock,          \* local toBlock of getTransactionsConcurrent
    blockChan,        \* buffered channel of block numbers
    blockClosed,      \* close(blockChan) has run
    resultChan,       \* buffered channel of blockResult
    resultClosed,     \* close(resultChan) has run
    wpc,              \* position of each worker goroutine
    wres,             \* each worker's block number and blockResult
    fpc,              \* position of the feeder goroutine
    fnext,            \* the feeder's loop variable blockNum
    cpc,              \* position of the goroutine that closes resultChan
    allTransactions,  \* the collector's accumulated list
    result,           \* what Execute returned
    crashed,          \* an unrecovered panic ended the process
    failed,           \* history: blocks whose fetch failed before the call returned
    cancelMidScan,    \* history: ctx was cancelled mid-scan, no fetch having failed
    itemsAtCall,      \* history: the cache as it was when Execute was called
    prevOk,           \* history: what the last successful Execute returned
    calls,            \* history: the chain and cache calls made by this Execute
    upstream,         \* history: the chain call of this Execute that failed
    workersSet,       \* history: the last SetMaxWorkers call
    storedFor,        \* history: per cache key, the query whose result Execute stored
    scanLog,          \* history: the blocks fed and fetched, the closes of blockChan
    \* internal/parser/parser.go: one call of ParseQuery
    input,            \* the string passed to ParseQuery
    parsed,           \* what ParseQuery returned
    sanitized,        \* what SanitizeInput returned to ParseQuery
    \* internal/cache/invalidation.go
    invalidated       \* history: the last invalidation call and what it returned

\* the variables of the lock, of the calling goroutines and of the sweep loop
lockVars == <<mu, gcall, cleanupEvery, stopCleanup, spc>>

\* the variables of the cache, without and with the history of the scan
cacheKept == <<items, maxItems, defaultTTL, lockVars, now, written, lastOp>>
cacheVars == <<cacheKept, scanLog>>

execVars == <<maxWorkers, cacheKind, query, ctxDerived, ctxDone, mpc, fromBlock,
              toBlock, blockChan, blockClosed, resultChan, resultClosed, wpc, wres,
              fpc, fnext, cpc, allTransactions, result, crashed, failed,
              cancelMidScan, itemsAtCall, prevOk, calls, upstream, workersSet,
              storedFor, input, parsed, sanitized, invalidated>>

vars == <<cacheVars, execVars>>

(***************************************************************************)
(* internal/cache/cache.go                                                 *)
(***************************************************************************)

\* an entry: cacheItem{value, expiration}
cacheItem(v, exp) == [value |-> v, expiration |-> exp]

\* the absent entry of the history
NoItem == [value |-> None, expiration |-> 0]

\* the empty map: make(map[string]*cacheItem)
EmptyMap == [x \in {} |-> NoItem]

\* time.Now().After(item.expiration) at clock reading t, with Before for After
ExpiredBefore(item, t) == t < item.expiration

\* time.Now().After(item.expiration) at clock reading t
Expired(item, t) == t > item.expiration

\* len(c.items)
Size(its) == Cardinality(DOMAIN its)

\* the map without one key: delete(c.items, key)
MapDelete(its, k) == [x \in (DOMAIN its) \ {k} |-> its[x]]

\* the map with one key assigned: c.items[key] = item
MapPut(its, k, item) == [x \in (DOMAIN its) \cup {k} |-> IF x = k THEN item ELSE its[x]]

\* the orders in which `for key, item := range c.items` may visit the map
RangeOrders(its) ==
    {o \in [1..Size(its) -> DOMAIN its] : \A i, j \in 1..Size(its) : o[i] = o[j] => i = j}

\* the loop of evictOldest over the visiting order o, from position i on,
\* carrying (oldestKey, oldestTime)
RECURSIVE OldestScan(_, _, _, _, _)
OldestScan(its, o, i, oldestKey, oldestTime) ==
    IF i > Len(o) THEN oldestKey
    ELSE IF oldestKey = "" \/ its[o[i]].expiration < oldestTime
         THEN OldestScan(its, o, i + 1, o[i], its[o[i]].expiration)
         ELSE OldestScan(its, o, i + 1, oldestKey, oldestTime)

\* the set of keys evictOldest deletes when the map is visited in order o
evictOldest(its, o) ==
    LET oldestKey == OldestScan(its, o, 1, "", 0)
    IN  IF oldestKey # "" THEN {oldestKey} ELSE {}

\* the capacity check of Set: len(c.items) >= c.maxItems
NeedsEvict(its) == Size(its) >= maxItems

\* what the eviction step of Set may delete, over every visiting order of
\* the map: nothing below the limit, else what evictOldest deletes
Evictions(its) ==
    IF NeedsEvict(its) THEN {evictOldest(its, o) : o \in RangeOrders(its)} ELSE {{}}

\* what Get returns from the map its at clock reading t
GetResult(its, k, t) ==
    IF k \in DOMAIN its /\ ~Expired(its[k], t)
    THEN [found |-> TRUE, value |-> its[k].value]
    ELSE [found |-> FALSE, value |-> None]

\* the entry Set stores: ttl == 0 stands for the default TTL
SetItem(v, ttl, t) == cacheItem(v, t + (IF ttl = 0 THEN defaultTTL ELSE ttl))

\* the map after Set, its eviction step having deleted the keys gone
SetResult(its, k, v, ttl, gone, t) ==
    MapPut([x \in (DOMAIN its) \ gone |-> its[x]], k, SetItem(v, ttl, t))

\* a sweep that deletes every entry
sweepAll(its, t) == [x \in {} |-> its[x]]

\* the map after one sweep at clock reading t
cleanupResult(its, t) == [x \in {y \in DOMAIN its : ~Expired(its[y], t)} |-> its[x]]

\* the record of a cache call
Op(name, k, v, f, gone) ==
    [op |-> name, key |-> k, value |-> v, found |-> f, evicted |-> gone]

\* Get under the read lock
Get(k) ==
    /\ lastOp' = Op("Get", k, GetResult(items, k, now).value,
                    GetResult(items, k, now).found, {})
    /\ UNCHANGED <<items, maxItems, defaultTTL, lockVars, scanLog, now, written, execVars>>

\* Set under the write lock, its eviction step deleting the keys gone
Set(k, v, ttl, gone) ==
    /\ items' = SetResult(items, k, v, ttl, gone, now)
    /\ written' = [x \in Keys |-> IF x = k THEN SetItem(v, ttl, now)
                                  ELSE IF x \in gone THEN NoItem
                                  ELSE written[x]]
    /\ lastOp' = Op("Set", k, None, FALSE, gone)
    /\ UNCHANGED <<maxItems, defaultTTL, lockVars, scanLog, now, execVars>>

\* Delete under the write lock
Delete(k) ==
    /\ items' = MapDelete(items, k)
    /\ written' = [written EXCEPT ![k] = NoItem]
    /\ lastOp' = Op("Delete", "", None, FALSE, {})
    /\ UNCHANGED <<maxItems, defaultTTL, lockVars, scanLog, now, execVars>>

\* Clear under the write lock
Clear ==
    /\ items' = EmptyMap
    /\ written' = [x \in Keys |-> NoItem]
    /\ lastOp' = Op("Clear", "", None, FALSE, {})
    /\ UNCHANGED <<maxItems, defaultTTL, lockVars, scanLog, now, execVars>>

\* cleanup: one sweep of the background loop, under the write lock
cleanup ==
    /\ items' = cleanupResult(items, now)
    /\ lastOp' = Op("cleanup", "", None, FALSE, {})
    /\ UNCHANGED <<maxItems, defaultTTL, lockVars, scanLog, now, written, execVars>>

\* the clock advances
Tick ==
    /\ now < MaxTime
    /\ now' = now + 1
    /\ lastOp' = Op("Tick", "", None, FALSE, {})
    /\ UNCHANGED <<items, maxItems, defaultTTL, lockVars, scanLog, written, execVars>>

\* the goroutines that call the cache
Goroutines == {"g1", "g2"}

\* the RWMutex held by nobody
Unlocked == [writer |-> {}, readers |-> {}, waiting |-> {}]

\* a goroutine that is in no call of the cache. Of a call: its name, its
\* position, its key (the prefix of InvalidateByPrefix), value and ttl; of
\* InvalidateByPrefix also the keys of its loop still to visit, the key its
\* Delete is at and its count, and as history the keys with the prefix that
\* Keys() returned, those this call's own Delete found in the map, and those
\* another goroutine Set during the call
NoCall ==
    [op |-> "", pc |-> "idle", key |-> "", value |-> None, ttl |-> 0, keys |-> {},
     at |-> "", count |-> 0, atStart |-> {}, removed |-> {}, reSet |-> {}]

\* no goroutine is in a call of the cache; the cleanup interval is zero and
\* no cleanupLoop was started
LockIdle ==
    /\ mu = Unlocked
    /\ gcall = [g \in Goroutines |-> NoCall]
    /\ cleanupEvery = 0
    /\ stopCleanup = "open"
    /\ spc = "none"

\* NewInMemoryCache(maxItems, defaultTTL, 0)
NewInMemoryCache ==
    /\ items = EmptyMap
    /\ maxItems \in 1..MaxCap
    /\ defaultTTL \in DefaultTTLs
    /\ now = 0
    /\ written = [x \in Keys |-> NoItem]
    /\ lastOp = Op("New", "", None, FALSE, {})
    /\ LockIdle

(***************************************************************************)
(* queries/query.go and the chain behind the chain-access client           *)
(***************************************************************************)

\* a nil *big.Int, and a *big.Int holding n
Nil == <<>>
Some(n) == <<n>>
Val(p) == p[1]

\* query.Address.Hex() of the two accounts of the model chain
AddrA == "0xAa"
AddrB == "0xBb"

\* queries.Query
Query(method, address, from, to) ==
    [Method |-> method, Address |-> address, FromBlock |-> from, ToBlock |-> to]

\* n consecutive transactions of a block with one sender and one recipient
\* (to = "" is a nil tx.To()); signed says whether TransactionToMessage
\* recovers the sender
Txs(n, from, to, signed) == [n |-> n, from |-> from, to |-> to, signed |-> signed]

\* block.Transactions() of block number b on the model chain
Chain(b) ==
    CASE b = 0 -> <<Txs(4000, AddrA, AddrB, TRUE), Txs(2, AddrB, "", TRUE),
                    Txs(6000, AddrB, AddrA, TRUE)>>
      [] b = 1 -> <<Txs(1, AddrA, "", TRUE), Txs(1, AddrA, AddrA, FALSE)>>
      [] b = 2 -> <<Txs(1, AddrB, AddrB, TRUE), Txs(2, AddrA, AddrA, TRUE)>>
      [] OTHER -> <<Txs(1, AddrB, AddrA, TRUE)>>

\* the chain heads client.BlockNumber may report
Heads == {50, 200}

(***************************************************************************)
(* internal/executor/executor.go                                           *)
(***************************************************************************)

\* the range limit of a TRANSACTIONS query
maxBlockRange == 1000

\* const maxTransactions of the collector
maxTransactions == 10000

\* the width of the default window
defaultWindow == 100

\* the filter of the scan: the transaction decodes and is sent to or by addr
Matches(tx, addr) == tx.signed /\ ((tx.to # "" /\ tx.to = addr) \/ tx.from = addr)

\* blockTxs of one block: its matching transactions, in block order, each
\* run named by block number and position
BlockTxs(b, addr) ==
    LET txs == Chain(b)
        named == [i \in 1..Len(txs) |-> [blk |-> b, run |-> i, n |-> txs[i].n]]
        Keep(r) == Matches(txs[r.run], addr)
    IN  SelectSeq(named, Keep)

\* len() of a transaction list
RECURSIVE TxLen(_)
TxLen(list) == IF list = <<>> THEN 0 ELSE Head(list).n + TxLen(Tail(list))

\* how many times the transactions of run <<blk, run>> occur in a list
RECURSIVE TxCount(_, _, _)
TxCount(list, blk, run) ==
    IF list = <<>> THEN 0
    ELSE (IF Head(list).blk = blk /\ Head(list).run = run THEN Head(list).n ELSE 0)
         + TxCount(Tail(list), blk, run)

\* the multiset of the transactions of a list
TxBag(list) ==
    [p \in {<<list[i].blk, list[i].run>> : i \in 1..Len(list)} |-> TxCount(list, p[1], p[2])]

\* json.Marshal of one parameter: a string, or a *big.Int
JsonString(str) == "\"" \o str \o "\""
JsonBig(p) == IF p = Nil THEN "null" ELSE ToString(Val(p))

\* a key that is the digest alone
digestOnly(prefix, params) ==
    LET Join[i \in 0..Len(params)] ==
            IF i = 0 THEN ""
            ELSE Join[i - 1] \o (IF i = 1 THEN "" ELSE ",") \o params[i]
    IN  "sha256(" \o "[" \o Join[Len(params)] \o "]" \o ")"

\* GenerateKey(prefix, params...): prefix, ":", and the digest of the JSON
\* array of the parameters (the digest is taken to be collision-free)
GenerateKey(prefix, params) ==
    LET Join[i \in 0..Len(params)] ==
            IF i = 0 THEN ""
            ELSE Join[i - 1] \o (IF i = 1 THEN "" ELSE ",") \o params[i]
    IN  prefix \o ":" \o "sha256(" \o "[" \o Join[Len(params)] \o "]" \o ")"

\* the loop of the sequential scan from blockNum on, every fetch succeeding
\* and the context live
RECURSIVE SeqLoop(_, _, _, _)
SeqLoop(addr, blockNum, to, transactions) ==
    IF blockNum > to THEN [err |-> "", txs |-> transactions]
    ELSE LET found == BlockTxs(blockNum, addr)
             all == transactions \o found
         IN  IF found # <<>> /\ TxLen(all) >= maxTransactions
             THEN [err |-> "ResultTooLarge", txs |-> <<>>]
             ELSE SeqLoop(addr, blockNum + 1, to, all)

\* getTransactions on a chain whose latest block is head, every fetch
\* succeeding and the context live
getTransactions(q, head) ==
    LET from == IF q.FromBlock = Nil THEN head ELSE Val(q.FromBlock)
        to == IF q.FromBlock = Nil THEN head
              ELSE IF q.ToBlock = Nil THEN Val(q.FromBlock) ELSE Val(q.ToBlock)
    IN  IF to - from > maxBlockRange THEN [err |-> "RangeTooLarge", txs |-> <<>>]
        ELSE SeqLoop(q.Address, from, to, <<>>)

\* the queries the model passes to Execute
Queries ==
    {Query("TRANSACTIONS", AddrA, Some(r[1]), Some(r[2])) :
        r \in {p \in (0..MaxBlock) \X (0..MaxBlock) : p[1] <= p[2]}}
    \cup {Query("TRANSACTIONS", AddrA, Nil, Nil), Query("TRANSACTIONS", AddrA, Some(0), Nil),
          Query("TRANSACTIONS", AddrA, Some(0), Some(maxBlockRange + 1))}

\* what Execute returns
NoResult ==
    [status |-> "none", err |-> "", cause |-> "", blk |-> 0, n |-> 0, txs |-> <<>>,
     ctxErr |-> FALSE, hit |-> FALSE]
Ok(txs, hit) ==
    [status |-> "ok", err |-> "", cause |-> "", blk |-> 0, n |-> 0, txs |-> txs,
     ctxErr |-> ctxDone, hit |-> hit]
Err(kind, blk, n) ==
    [status |-> "err", err |-> kind, cause |-> "", blk |-> blk, n |-> n, txs |-> <<>>,
     ctxErr |-> ctxDone, hit |-> FALSE]

\* the errors a chain-access call may return
UpstreamErrors == {"connection refused", "deadline exceeded"}

\* no chain call failed, and the call op failed with the error e
NoFailure == [op |-> "", err |-> ""]
Failure(op, e) == [op |-> op, err |-> e]

\* an error of the engine that drops the upstream one
Opaque(kind, cause) ==
    [status |-> "err", err |-> kind, cause |-> "", blk |-> 0, n |-> 0, txs |-> <<>>,
     ctxErr |-> ctxDone, hit |-> FALSE]

\* fmt.Errorf("...: %w", err): an error of the engine wrapping the upstream one
Wrap(kind, cause) ==
    [status |-> "err", err |-> kind, cause |-> cause, blk |-> 0, n |-> 0, txs |-> <<>>,
     ctxErr |-> ctxDone, hit |-> FALSE]

\* the calls an Execute makes on the chain client and on the cache
Ops == {"head", "balance", "logs", "block", "get", "set"}
NoCalls == [op \in Ops |-> 0]
Count(c, op) == [c EXCEPT ![op] = @ + 1]

\* the blocks the node serves: a fetch of any other block returns an error
Served(b) == b \in 0..MaxBlock

\* a blockResult
blockResult(blockNum, transactions, err) ==
    [blockNum |-> blockNum, transactions |-> transactions, err |-> err]

\* the collector's test of a received result, taking no result for an error
noErr(r) == FALSE

\* the collector's test of a received result: result.err != nil
hasErr(r) == r.err

\* the collector's accumulation, keeping only the last block's transactions
replaceTransactions(all, txs) == txs

\* the collector's accumulation: append(allTransactions, result.transactions...)
appendTransactions(all, txs) == all \o txs

\* the collector's size test, with >= for >
atLimit(n) == n >= maxTransactions

\* the collector's size test: len(allTransactions) > maxTransactions
overLimit(n) == n > maxTransactions

\* a worker's variables while it holds no block
NoBlockResult == blockResult(0, <<>>, FALSE)

Workers == 1..MaxWorkers

\* the goroutines of a scan have all ended, or none was started
Quiescent ==
    /\ \A w \in Workers : wpc[w] \in {"off", "done"}
    /\ fpc \in {"off", "done"}
    /\ cpc \in {"off", "done"}

\* the cache key of the scan
cacheKey ==
    GenerateKey("transactions",
                <<JsonString(query.Address), JsonBig(fromBlock), JsonBig(toBlock)>>)

\* the Get of the in-memory cache, whatever cache is installed
memGet(k) == GetResult(items, k, now)

\* qe.cache.Get(key), for the installed cache
CacheGet(k) ==
    IF cacheKind = "mem" THEN GetResult(items, k, now)
    ELSE [found |-> FALSE, value |-> None]

\* a Set that stores nothing
CacheSkip(k, v) == {items}

\* the maps qe.cache.Set(key, v, 0) may leave, for the installed cache
CacheSet(k, v) ==
    IF cacheKind = "mem"
    THEN {SetResult(items, k, v, 0, gone, now) : gone \in Evictions(items)}
    ELSE {items}

\* the queries of the entries of the cache its, the query of this call
\* having stored the entry of the key k
StoredFor(its, k) ==
    [x \in DOMAIN its \cap (DOMAIN storedFor \cup {k}) |->
        IF x = k THEN query ELSE storedFor[x]]

\* the history of a scan in which nothing was fed or fetched yet
NoScanLog == [fed |-> <<>>, fetched |-> [b \in {} |-> 0], closes |-> 0]

\* the history after the feeder sent the block number b, after a worker
\* called client.BlockByNumber for b, and after close(blockChan)
LogFed(log, b) == [log EXCEPT !.fed = Append(@, b)]
LogFetched(log, b) ==
    [log EXCEPT !.fetched =
        [x \in DOMAIN @ \cup {b} |-> IF x = b THEN (IF b \in DOMAIN @ THEN @[b] ELSE 0) + 1
                                      ELSE @[x]]]
LogClosed(log) == [log EXCEPT !.closes = @ + 1]

\* the fields of the executor and the variables of a call before any call
ExecFields(workers, kind) ==
    /\ maxWorkers = workers
    /\ cacheKind = kind
    /\ query = Query("TRANSACTIONS", AddrA, Nil, Nil)
    /\ ctxDerived = FALSE /\ ctxDone = FALSE
    /\ mpc = "idle"
    /\ fromBlock = Nil /\ toBlock = Nil
    /\ blockChan = <<>> /\ blockClosed = FALSE
    /\ resultChan = <<>> /\ resultClosed = FALSE
    /\ wpc = [w \in Workers |-> "off"]
    /\ wres = [w \in Workers |-> NoBlockResult]
    /\ fpc = "off" /\ fnext = 0 /\ cpc = "off"
    /\ allTransactions = <<>>
    /\ result = NoResult
    /\ crashed = FALSE
    /\ failed = {}
    /\ cancelMidScan = FALSE
    /\ itemsAtCall = EmptyMap
    /\ prevOk = Nil
    /\ calls = NoCalls
    /\ upstream = NoFailure
    /\ workersSet = Nil
    /\ storedFor = EmptyMap
    /\ scanLog = NoScanLog

\* the variables of a call that a step of one goroutine leaves alone
callKept == <<maxWorkers, cacheKind, query, ctxDerived, itemsAtCall, prevOk, workersSet,
              input, parsed, sanitized, invalidated>>
callIn == <<callKept, storedFor>>
callArgs == <<callIn, upstream>>
callFrame == <<callArgs, calls>>

\* Execute(ctx, query): the call begins; ctx has a deadline or gets one.
\* The caller makes its first call with any query and may then repeat it,
\* once the goroutines of the call before have ended.
Execute(q, hasDeadline) ==
    /\ ~crashed /\ Quiescent
    /\ mpc = "idle" \/ (mpc = "returned" /\ q = query)
    /\ query' = q
    /\ ctxDerived' = ~hasDeadline
    /\ ctxDone' = FALSE
    /\ mpc' = CASE q.Method = "BALANCE" -> "balance"
                 [] q.Method = "LOGS" -> "logs"
                 [] q.Method = "TRANSACTIONS" ->
                      IF q.FromBlock = Nil \/ q.ToBlock = Nil THEN "head" ELSE "validate"
                 [] OTHER -> "unsupported"
    /\ fromBlock' = IF q.FromBlock = Nil \/ q.ToBlock = Nil THEN Nil ELSE q.FromBlock
    /\ toBlock' = IF q.FromBlock = Nil \/ q.ToBlock = Nil THEN Nil ELSE q.ToBlock
    /\ blockChan' = <<>> /\ blockClosed' = FALSE
    /\ resultChan' = <<>> /\ resultClosed' = FALSE
    /\ wpc' = [w \in Workers |-> "off"]
    /\ wres' = [w \in Workers |-> NoBlockResult]
    /\ fpc' = "off" /\ fnext' = 0 /\ cpc' = "off"
    /\ allTransactions' = <<>>
    /\ result' = NoResult
    /\ failed' = {}
    /\ cancelMidScan' = FALSE
    /\ itemsAtCall' = items
    /\ prevOk' = IF result.status = "ok" THEN Some(result.txs) ELSE prevOk
    /\ calls' = NoCalls
    /\ upstream' = NoFailure
    /\ invalidated' = Nil
    /\ scanLog' = NoScanLog
    /\ UNCHANGED <<maxWorkers, cacheKind, crashed, workersSet, storedFor, input, parsed,
                   sanitized, cacheKept>>

\* the function returns: the result is fixed, the deferred cancel is pending
Return(r) ==
    /\ result' = r
    /\ mpc' = "unwind"

\* the head step of the sequential getTransactions, which assigns the
\* bounds to the Query itself
HeadAssigns(head) ==
    /\ ~crashed /\ mpc = "head"
    /\ query' = [query EXCEPT !.FromBlock = Some(head), !.ToBlock = Some(head)]
    /\ fromBlock' = Some(head)
    /\ toBlock' = Some(head)
    /\ mpc' = "validate"
    /\ calls' = Count(calls, "head")
    /\ UNCHANGED <<maxWorkers, cacheKind, ctxDerived, itemsAtCall, prevOk, workersSet,
                   input, parsed, sanitized, invalidated, storedFor, upstream,
                   ctxDone, blockChan, blockClosed, resultChan, resultClosed,
                   wpc, wres, fpc, fnext, cpc, allTransactions, result, crashed,
                   failed, cancelMidScan, cacheVars>>

\* client.BlockNumber succeeds: the default window below the head.
\* int64(latestBlock - 100) of a uint64 below 2^63 is latestBlock - 100,
\* negative when the subtraction wraps
HeadOk(head) ==
    /\ ~crashed /\ mpc = "head"
    /\ fromBlock' = Some(head - defaultWindow)
    /\ toBlock' = Some(head)
    /\ mpc' = "validate"
    /\ calls' = Count(calls, "head")
    /\ UNCHANGED <<callArgs, ctxDone, blockChan, blockClosed, resultChan, resultClosed,
                   wpc, wres, fpc, fnext, cpc, allTransactions, result, crashed,
                   failed, cancelMidScan, cacheVars>>

\* client.BlockNumber fails
HeadFail(e) ==
    /\ ~crashed /\ mpc = "head"
    /\ Return(Wrap("HeadError", e))
    /\ calls' = Count(calls, "head")
    /\ upstream' = Failure("head", e)
    /\ UNCHANGED <<callIn, ctxDone, fromBlock, toBlock, blockChan, blockClosed,
                   resultChan, resultClosed, wpc, wres, fpc, fnext, cpc,
                   allTransactions, crashed, failed, cancelMidScan, cacheVars>>

\* the range check fails
RangeTooLarge ==
    /\ ~crashed /\ mpc = "validate"
    /\ Val(toBlock) - Val(fromBlock) > maxBlockRange
    /\ Return(Err("RangeTooLarge", 0, 0))
    /\ UNCHANGED <<callFrame, ctxDone, fromBlock, toBlock, blockChan, blockClosed,
                   resultChan, resultClosed, wpc, wres, fpc, fnext, cpc,
                   allTransactions, crashed, failed, cancelMidScan, cacheVars>>

\* the range check passes and the cache holds the key
CacheHit ==
    /\ ~crashed /\ mpc = "validate"
    /\ Val(toBlock) - Val(fromBlock) <= maxBlockRange
    /\ CacheGet(cacheKey).found
    /\ Return(Ok(CacheGet(cacheKey).value, TRUE))
    /\ calls' = Count(calls, "get")
    /\ UNCHANGED <<callArgs, ctxDone, fromBlock, toBlock, blockChan, blockClosed,
                   resultChan, resultClosed, wpc, wres, fpc, fnext, cpc,
                   allTransactions, crashed, failed, cancelMidScan, cacheVars>>

\* a pool that starts a worker for every slot, whatever maxWorkers is
startAll ==
    /\ ~crashed /\ mpc = "validate"
    /\ Val(toBlock) - Val(fromBlock) <= maxBlockRange
    /\ ~CacheGet(cacheKey).found
    /\ wpc' = [w \in Workers |-> "recv"]
    /\ fpc' = "loop"
    /\ fnext' = IF query.FromBlock = Nil THEN 0 ELSE Val(query.FromBlock)
    /\ cpc' = "wait"
    /\ mpc' = "collect"
    /\ calls' = Count(calls, "get")
    /\ UNCHANGED <<callArgs, ctxDone, fromBlock, toBlock, blockChan, blockClosed,
                   resultChan, resultClosed, wres, allTransactions, result, crashed,
                   failed, cancelMidScan, cacheVars>>

\* the range check passes, the cache misses: the channels are made and the
\* workers, the feeder and the closer are started
StartScan ==
    /\ ~crashed /\ mpc = "validate"
    /\ Val(toBlock) - Val(fromBlock) <= maxBlockRange
    /\ ~CacheGet(cacheKey).found
    /\ wpc' = [w \in Workers |-> IF w <= maxWorkers THEN "recv" ELSE "off"]
    /\ fpc' = "loop"
    /\ fnext' = IF query.FromBlock = Nil THEN 0 ELSE Val(query.FromBlock)
    /\ cpc' = "wait"
    /\ mpc' = "collect"
    /\ calls' = Count(calls, "get")
    /\ UNCHANGED <<callArgs, ctxDone, fromBlock, toBlock, blockChan, blockClosed,
                   resultChan, resultClosed, wres, allTransactions, result, crashed,
                   failed, cancelMidScan, cacheVars>>

\* the variables the workers, the feeder and the closer never write
mainLocals == <<fromBlock, toBlock, allTransactions, result, mpc, cacheVars>>
mainFrame == <<callFrame, mainLocals>>

\* the same, without the history of the scan
mainKept == <<fromBlock, toBlock, allTransactions, result, mpc, cacheKept>>

\* a worker receives a block number from blockChan and reads ctx.Err():
\* it returns if the context is done, else it starts fetching the block
WorkerTake(w) ==
    /\ ~crashed /\ wpc[w] = "recv" /\ blockChan # <<>>
    /\ blockChan' = Tail(blockChan)
    /\ wpc' = [wpc EXCEPT ![w] = IF ctxDone THEN "done" ELSE "fetch"]
    /\ wres' = [wres EXCEPT ![w] = IF ctxDone THEN NoBlockResult
                                   ELSE blockResult(Head(blockChan), <<>>, FALSE)]
    /\ UNCHANGED <<mainFrame, ctxDone, blockClosed, resultChan, resultClosed, fpc,
                   fnext, cpc, crashed, failed, cancelMidScan>>

\* a worker finds blockChan closed and drained: its range loop ends
WorkerExit(w) ==
    /\ ~crashed /\ wpc[w] = "recv" /\ blockChan = <<>> /\ blockClosed
    /\ wpc' = [wpc EXCEPT ![w] = "done"]
    /\ UNCHANGED <<mainFrame, ctxDone, blockChan, blockClosed, resultChan,
                   resultClosed, wres, fpc, fnext, cpc, crashed, failed, cancelMidScan>>

\* client.BlockByNumber returns the block: the worker filters it
FetchOk(w) ==
    /\ ~crashed /\ wpc[w] = "fetch"
    /\ Served(wres[w].blockNum)
    /\ wres' = [wres EXCEPT ![w] =
                  blockResult(wres[w].blockNum, BlockTxs(wres[w].blockNum, query.Address), FALSE)]
    /\ wpc' = [wpc EXCEPT ![w] = "send"]
    /\ calls' = Count(calls, "block")
    /\ scanLog' = LogFetched(scanLog, wres[w].blockNum)
    /\ UNCHANGED <<callArgs, mainKept, ctxDone, blockChan, blockClosed, resultChan,
                   resultClosed, fpc, fnext, cpc, crashed, failed, cancelMidScan>>

\* client.BlockByNumber returns an error
FetchFail(w) ==
    /\ ~crashed /\ wpc[w] = "fetch"
    /\ wres' = [wres EXCEPT ![w] = blockResult(wres[w].blockNum, <<>>, TRUE)]
    /\ wpc' = [wpc EXCEPT ![w] = "send"]
    /\ failed' = IF mpc = "collect" THEN failed \cup {wres[w].blockNum} ELSE failed
    /\ calls' = Count(calls, "block")
    /\ scanLog' = LogFetched(scanLog, wres[w].blockNum)
    /\ UNCHANGED <<callArgs, mainKept, ctxDone, blockChan, blockClosed, resultChan,
                   resultClosed, fpc, fnext, cpc, crashed, cancelMidScan>>

\* resultChan <- blockResult: possible while the buffer has room
WorkerSend(w) ==
    /\ ~crashed /\ wpc[w] = "send" /\ Len(resultChan) < maxWorkers
    /\ resultChan' = Append(resultChan, wres[w])
    /\ wpc' = [wpc EXCEPT ![w] = "recv"]
    /\ wres' = [wres EXCEPT ![w] = NoBlockResult]
    /\ UNCHANGED <<mainFrame, ctxDone, blockChan, blockClosed, resultClosed,
                   fpc, fnext, cpc, crashed, failed, cancelMidScan>>

\* the feeder's loop reads query.FromBlock and query.ToBlock, not the local
\* bounds: a nil one is dereferenced and the panic ends the process
FeederPanic ==
    /\ ~crashed /\ fpc = "loop"
    /\ query.FromBlock = Nil \/ query.ToBlock = Nil
    /\ fpc' = "panic"
    /\ crashed' = TRUE
    /\ UNCHANGED <<mainFrame, ctxDone, blockChan, blockClosed, resultChan,
                   resultClosed, wpc, wres, fnext, cpc, failed, cancelMidScan>>

\* the feeder's select sends the next block number
FeederSend ==
    /\ ~crashed /\ fpc = "loop"
    /\ query.FromBlock # Nil /\ query.ToBlock # Nil
    /\ fnext <= Val(query.ToBlock)
    /\ Len(blockChan) < maxWorkers
    /\ blockChan' = Append(blockChan, fnext)
    /\ fnext' = fnext + 1
    /\ scanLog' = LogFed(scanLog, fnext)
    /\ UNCHANGED <<callFrame, mainKept, ctxDone, blockClosed, resultChan, resultClosed,
                   wpc, wres, fpc, cpc, crashed, failed, cancelMidScan>>

\* the feeder's select takes <-ctx.Done(): it closes blockChan and returns
FeederCancel ==
    /\ ~crashed /\ fpc = "loop"
    /\ query.FromBlock # Nil /\ query.ToBlock # Nil
    /\ fnext <= Val(query.ToBlock)
    /\ ctxDone
    /\ blockClosed' = TRUE
    /\ fpc' = "done"
    /\ fnext' = 0
    /\ scanLog' = LogClosed(scanLog)
    /\ UNCHANGED <<callFrame, mainKept, ctxDone, blockChan, resultChan, resultClosed,
                   wpc, wres, cpc, crashed, failed, cancelMidScan>>

\* the feeder's loop ends: it closes blockChan
FeederClose ==
    /\ ~crashed /\ fpc = "loop"
    /\ query.FromBlock # Nil /\ query.ToBlock # Nil
    /\ fnext > Val(query.ToBlock)
    /\ blockClosed' = TRUE
    /\ fpc' = "done"
    /\ fnext' = 0
    /\ scanLog' = LogClosed(scanLog)
    /\ UNCHANGED <<callFrame, mainKept, ctxDone, blockChan, resultChan, resultClosed,
                   wpc, wres, cpc, crashed, failed, cancelMidScan>>

\* wg.Wait() returns once every worker has ended: resultChan is closed
CloseResults ==
    /\ ~crashed /\ cpc = "wait"
    /\ \A w \in Workers : w <= maxWorkers => wpc[w] = "done"
    /\ resultClosed' = TRUE
    /\ cpc' = "done"
    /\ UNCHANGED <<mainFrame, ctxDone, blockChan, blockClosed, resultChan, wpc, wres,
                   fpc, fnext, crashed, failed, cancelMidScan>>

\* the variables the collector never writes
poolLocals == <<fromBlock, toBlock, ctxDone, blockChan, blockClosed,
                resultClosed, wpc, wres, fpc, fnext, cpc, crashed, failed,
                cancelMidScan, maxItems, defaultTTL, lockVars, scanLog, now, written, lastOp>>
poolFrame == <<callFrame, poolLocals>>

\* the collector receives a blockResult holding an error: it returns it
CollectError ==
    /\ ~crashed /\ mpc = "collect" /\ resultChan # <<>>
    /\ hasErr(Head(resultChan))
    /\ resultChan' = Tail(resultChan)
    /\ Return(Err("BlockError", Head(resultChan).blockNum, 0))
    /\ UNCHANGED <<poolFrame, allTransactions, items>>

\* the collector receives a block's transactions and appends them; above
\* maxTransactions it returns the size error
CollectAppend ==
    /\ ~crashed /\ mpc = "collect" /\ resultChan # <<>>
    /\ ~hasErr(Head(resultChan))
    /\ resultChan' = Tail(resultChan)
    /\ allTransactions' = appendTransactions(allTransactions, Head(resultChan).transactions)
    /\ IF overLimit(TxLen(allTransactions'))
       THEN Return(Err("ResultTooLarge", 0, TxLen(allTransactions')))
       ELSE UNCHANGED <<result, mpc>>
    /\ UNCHANGED <<poolFrame, items>>

\* resultChan is closed and drained with the context done: the
\* cancellation error, with the number of transactions collected
CollectCancelled ==
    /\ ~crashed /\ mpc = "collect" /\ resultChan = <<>> /\ resultClosed
    /\ ctxDone
    /\ Return(Err("Cancelled", 0, TxLen(allTransactions)))
    /\ UNCHANGED <<poolFrame, resultChan, allTransactions, items>>

\* resultChan is closed and drained with the context live: the list is
\* cached and returned
CollectDone ==
    /\ ~crashed /\ mpc = "collect" /\ resultChan = <<>> /\ resultClosed
    /\ ~ctxDone
    /\ items' \in CacheSet(cacheKey, allTransactions)
    /\ storedFor' = StoredFor(items', cacheKey)
    /\ Return(Ok(allTransactions, FALSE))
    /\ calls' = Count(calls, "set")
    /\ UNCHANGED <<callKept, upstream, poolLocals, resultChan, allTransactions>>

\* the default case of Execute's switch
Unsupported ==
    /\ ~crashed /\ mpc = "unsupported"
    /\ Return(Err("Unsupported", 0, 0))
    /\ UNCHANGED <<callFrame, poolLocals, resultChan, allTransactions, items>>

\* the range limit and the result limit of a LOGS query
maxLogsRange == 10000
maxLogs == 10000

\* the balances and the numbers of log records the node may answer with
Balances == {1, 2}
LogCounts == {0, maxLogs, maxLogs + 1}

\* a balance of b wei, and a list of n log records
Wei(b) == <<[wei |-> b]>>
Logs(n) == <<[logs |-> n]>>

\* the cache keys of getBalance and getLogs; a cached value is of the type
\* its key's prefix stands for, so the type assertions after a hit succeed
balanceKey ==
    GenerateKey("balance", <<JsonString(query.Address), JsonBig(query.FromBlock)>>)
logsKey ==
    GenerateKey("logs", <<JsonString(query.Address), JsonBig(query.FromBlock),
                          JsonBig(query.ToBlock)>>)

\* getBalance: the cache holds the key
BalanceHit ==
    /\ ~crashed /\ mpc = "balance"
    /\ CacheGet(balanceKey).found
    /\ Return(Ok(CacheGet(balanceKey).value, TRUE))
    /\ calls' = Count(calls, "get")
    /\ UNCHANGED <<callArgs, poolLocals, resultChan, allTransactions, items>>

\* getBalance: the cache misses and client.BalanceAt is called
BalanceMiss ==
    /\ ~crashed /\ mpc = "balance"
    /\ ~CacheGet(balanceKey).found
    /\ mpc' = "balanceAt"
    /\ calls' = Count(calls, "get")
    /\ UNCHANGED <<callArgs, poolLocals, resultChan, allTransactions, items, result>>

\* client.BalanceAt returns b: it is cached and returned
BalanceOk(b) ==
    /\ ~crashed /\ mpc = "balanceAt"
    /\ items' \in CacheSet(balanceKey, Wei(b))
    /\ storedFor' = StoredFor(items', balanceKey)
    /\ Return(Ok(Wei(b), FALSE))
    /\ calls' = Count(Count(calls, "balance"), "set")
    /\ UNCHANGED <<callKept, upstream, poolLocals, resultChan, allTransactions>>

\* client.BalanceAt returns the error e
BalanceFail(e) ==
    /\ ~crashed /\ mpc = "balanceAt"
    /\ Return(Wrap("BalanceError", e))
    /\ calls' = Count(calls, "balance")
    /\ upstream' = Failure("balance", e)
    /\ UNCHANGED <<callIn, poolLocals, resultChan, allTransactions, items>>

\* getLogs: a bound is nil
LogsMissingRange ==
    /\ ~crashed /\ mpc = "logs"
    /\ query.FromBlock = Nil \/ query.ToBlock = Nil
    /\ Return(Err("MissingRange", 0, 0))
    /\ UNCHANGED <<callFrame, poolLocals, resultChan, allTransactions, items>>

\* the range check of getLogs, with >= for >
logsRangeReached(from, to) == to - from >= maxLogsRange

\* the range check of getLogs: blockRange.Cmp(big.NewInt(10000)) > 0
logsRangeExceeded(from, to) == to - from > maxLogsRange

\* getLogs going on to the cache whatever the bounds
LogsRangeAny == TRUE

\* the bounds of a LOGS query are given and pass the range check
LogsRangeOk ==
    /\ query.FromBlock # Nil /\ query.ToBlock # Nil
    /\ ~logsRangeExceeded(Val(query.FromBlock), Val(query.ToBlock))

\* getLogs: the range check fails
LogsRangeTooLarge ==
    /\ ~crashed /\ mpc = "logs"
    /\ query.FromBlock # Nil /\ query.ToBlock # Nil
    /\ logsRangeExceeded(Val(query.FromBlock), Val(query.ToBlock))
    /\ Return(Err("RangeTooLarge", 0, 0))
    /\ UNCHANGED <<callFrame, poolLocals, resultChan, allTransactions, items>>

\* getLogs: the cache holds the key
LogsHit ==
    /\ ~crashed /\ mpc = "logs" /\ LogsRangeOk
    /\ CacheGet(logsKey).found
    /\ Return(Ok(CacheGet(logsKey).value, TRUE))
    /\ calls' = Count(calls, "get")
    /\ UNCHANGED <<callArgs, poolLocals, resultChan, allTransactions, items>>

\* getLogs: the cache misses and client.FilterLogs is called
LogsMiss ==
    /\ ~crashed /\ mpc = "logs" /\ LogsRangeOk
    /\ ~CacheGet(logsKey).found
    /\ mpc' = "filterLogs"
    /\ calls' = Count(calls, "get")
    /\ UNCHANGED <<callArgs, poolLocals, resultChan, allTransactions, items, result>>

\* the result limit of getLogs, with >= for >
logsAtLimit(n) == n >= maxLogs

\* the result limit of getLogs: len(logs) > maxLogs
logsOverLimit(n) == n > maxLogs

\* client.FilterLogs returns n log records: above maxLogs the size error,
\* else they are cached and returned
FilterOk(n) ==
    /\ ~crashed /\ mpc = "filterLogs"
    /\ IF logsOverLimit(n)
       THEN /\ Return(Err("ResultTooLarge", 0, n))
            /\ calls' = Count(calls, "logs")
            /\ UNCHANGED <<items, storedFor>>
       ELSE /\ items' \in CacheSet(logsKey, Logs(n))
            /\ storedFor' = StoredFor(items', logsKey)
            /\ Return(Ok(Logs(n), FALSE))
            /\ calls' = Count(Count(calls, "logs"), "set")
    /\ UNCHANGED <<callKept, upstream, poolLocals, resultChan, allTransactions>>

\* client.FilterLogs returns the error e
FilterFail(e) ==
    /\ ~crashed /\ mpc = "filterLogs"
    /\ Return(Wrap("LogsError", e))
    /\ calls' = Count(calls, "logs")
    /\ upstream' = Failure("logs", e)
    /\ UNCHANGED <<callIn, poolLocals, resultChan, allTransactions, items>>

\* a return that leaves the context as it is
noCancel(done, derived) == done

\* the deferred cancel: registered only when Execute derived the context
deferCancel(done, derived) == done \/ derived

\* Execute returns to its caller: the deferred cancel of a derived context
Unwind ==
    /\ ~crashed /\ mpc = "unwind"
    /\ ctxDone' = deferCancel(ctxDone, ctxDerived)
    /\ mpc' = "returned"
    /\ UNCHANGED <<callFrame, fromBlock, toBlock, blockChan, blockClosed, resultChan,
                   resultClosed, wpc, wres, fpc, fnext, cpc, allTransactions, result,
                   crashed, failed, cancelMidScan, cacheVars>>

\* block numbers of the range are still queued or still to be fed
BlocksLeft ==
    \/ blockChan # <<>>
    \/ /\ fpc = "loop" /\ query.FromBlock # Nil /\ query.ToBlock # Nil
       /\ fnext <= Val(query.ToBlock)

\* the context's deadline passes, or its owner cancels it
Cancel ==
    /\ ~crashed /\ mpc # "idle" /\ ~ctxDone
    /\ ctxDone' = TRUE
    /\ cancelMidScan' = (mpc = "collect" /\ BlocksLeft /\ failed = {})
    /\ UNCHANGED <<callFrame, fromBlock, toBlock, blockChan, blockClosed, resultChan,
                   resultClosed, wpc, wres, fpc, fnext, cpc, allTransactions, result,
                   mpc, crashed, failed, cacheVars>>

\* ParseQuery has not returned
NoParse == [status |-> "none", err |-> "", query |-> Query("", "", Nil, Nil)]

\* NewQueryExecutor, SetMaxWorkers and SetCache have run; no call yet, and
\* nothing was parsed
ExecIdle(workers, kind) ==
    /\ ExecFields(workers, kind)
    /\ input = "" /\ parsed = NoParse /\ sanitized = ""
    /\ invalidated = Nil

\* the executor of the scanner's specification: an in-memory cache installed
\* by SetCache, a worker count set by SetMaxWorkers
ScanInit ==
    /\ NewInMemoryCache /\ maxItems = MaxCap
    /\ \E n \in 1..MaxWorkers : ExecIdle(n, "mem")

WorkerStep(w) ==
    \/ WorkerTake(w)
    \/ WorkerExit(w)
    \/ FetchOk(w)
    \/ FetchFail(w)
    \/ WorkerSend(w)

FeederStep ==
    \/ FeederPanic
    \/ FeederSend
    \/ FeederCancel
    \/ FeederClose

MainStep ==
    \/ \E head \in Heads : HeadOk(head)
    \/ \E e \in UpstreamErrors : HeadFail(e)
    \/ RangeTooLarge
    \/ CacheHit
    \/ StartScan
    \/ CollectError
    \/ CollectAppend
    \/ CollectCancelled
    \/ CollectDone
    \/ Unwind

ScanNext ==
    \/ \E q \in Queries, hasDeadline \in BOOLEAN : Execute(q, hasDeadline)
    \/ MainStep
    \/ \E w \in Workers : WorkerStep(w)
    \/ FeederStep
    \/ CloseResults
    \/ Cancel

SpecScan == ScanInit /\ [][ScanNext]_vars

\* the scheduler runs every runnable goroutine, and every fetch returns
FairSpecScan ==
    /\ SpecScan
    /\ WF_vars(MainStep)
    /\ \A w \in Workers : WF_vars(WorkerStep(w))
    /\ WF_vars(FeederStep)
    /\ WF_vars(CloseResults)

\* the worker count of NewQueryExecutor
defaultMaxWorkers == 5

\* NewQueryExecutor(client): five workers, no caching
NewQueryExecutor == ExecIdle(defaultMaxWorkers, "noop")

\* a setter that takes any number
setAnyWorkers(old, n) == n

\* the assignment of SetMaxWorkers, guarded by maxWorkers > 0
setWorkers(old, n) == IF n > 0 THEN n ELSE old

\* SetMaxWorkers(n), called between two calls of Execute
SetMaxWorkers(n) ==
    /\ ~crashed /\ Quiescent /\ mpc \in {"idle", "returned"}
    /\ maxWorkers' = setWorkers(maxWorkers, n)
    /\ workersSet' = Some([n |-> n, before |-> maxWorkers])
    /\ UNCHANGED <<cacheKind, query, ctxDerived, itemsAtCall, prevOk, calls, upstream,
                   input, parsed, sanitized, invalidated, mainLocals,
                   ctxDone, blockChan, blockClosed, resultChan, resultClosed, wpc,
                   wres, fpc, fnext, cpc, crashed, failed, cancelMidScan, storedFor>>

\* SetCache(c), called between two calls of Execute: c is the in-memory
\* cache or a NoOpCache
SetCache(kind) ==
    /\ ~crashed /\ Quiescent /\ mpc \in {"idle", "returned"}
    /\ cacheKind' = kind
    /\ UNCHANGED <<maxWorkers, query, ctxDerived, itemsAtCall, prevOk, calls, upstream,
                   workersSet, input, parsed, sanitized, invalidated, mainLocals,
                   ctxDone, blockChan, blockClosed, resultChan, resultClosed, wpc,
                   wres, fpc, fnext, cpc, crashed, failed, cancelMidScan, storedFor>>

\* the steps of the calling goroutine in getBalance, getLogs and the
\* default case
EngineStep ==
    \/ Unsupported
    \/ BalanceHit
    \/ BalanceMiss
    \/ \E b \in Balances : BalanceOk(b)
    \/ \E e \in UpstreamErrors : BalanceFail(e)
    \/ LogsMissingRange
    \/ LogsRangeTooLarge
    \/ LogsHit
    \/ LogsMiss
    \/ \E n \in LogCounts : FilterOk(n)
    \/ \E e \in UpstreamErrors : FilterFail(e)

\* the queries of the engine's specification: every method, with and
\* without bounds, at and above the range limits
BalanceQueries ==
    {Query("BALANCE", AddrA, Nil, Nil), Query("BALANCE", AddrA, Some(0), Some(MaxBlock))}
LogsQueries ==
    {Query("LOGS", AddrA, Nil, Nil), Query("LOGS", AddrA, Some(0), Nil),
     Query("LOGS", AddrA, Some(0), Some(maxLogsRange)),
     Query("LOGS", AddrA, Some(0), Some(maxLogsRange + 1))}
ConfigQueries == BalanceQueries \cup LogsQueries \cup {Query("CALL", AddrA, Nil, Nil)}
AsideQueries ==
    ConfigQueries
    \cup {Query("TRANSACTIONS", AddrA, Nil, Nil),
          Query("TRANSACTIONS", AddrA, Some(MaxBlock), Some(MaxBlock)),
          Query("TRANSACTIONS", AddrA, Some(0), Some(maxBlockRange + 1))}
EngineQueries ==
    AsideQueries
    \cup {Query("TRANSACTIONS", AddrA, Some(MaxBlock), Some(MaxBlock + maxBlockRange))}

\* the key and the value another client of the cache stores
OtherKey == "k1"
OtherValue == "v1"

\* another client of the cache calls Set, its eviction step deleting gone
OtherSet(gone) ==
    /\ items' = SetResult(items, OtherKey, OtherValue, 0, gone, now)
    /\ UNCHANGED <<maxItems, defaultTTL, lockVars, scanLog, now, written, lastOp, execVars>>

\* another client of the cache calls Clear
OtherClear ==
    /\ items # EmptyMap
    /\ items' = EmptyMap
    /\ UNCHANGED <<maxItems, defaultTTL, lockVars, scanLog, now, written, lastOp, execVars>>

\* the cleanup loop sweeps the expired entries
Sweep ==
    /\ items' = cleanupResult(items, now)
    /\ items' # items
    /\ UNCHANGED <<maxItems, defaultTTL, lockVars, scanLog, now, written, lastOp, execVars>>

\* the steps of a call of Execute, and its context ending
CallStep ==
    \/ MainStep
    \/ EngineStep
    \/ \E w \in Workers : WorkerStep(w)
    \/ FeederStep
    \/ CloseResults
    \/ Cancel

\* the engine: Execute of every method, with and without a caller's deadline
\* (SetMaxWorkers(1) and SetCache of the in-memory cache have run)
EngineInit == NewInMemoryCache /\ maxItems = MaxCap /\ ExecIdle(1, "mem")

EngineNext ==
    \/ \E q \in EngineQueries, hasDeadline \in BOOLEAN : Execute(q, hasDeadline)
    \/ CallStep

SpecEngine == EngineInit /\ [][EngineNext]_vars

\* the engine over a cache that another client writes and clears, the
\* sweep and the clock running
AsideInit == NewInMemoryCache /\ ExecIdle(1, "mem")

AsideNext ==
    \/ \E q \in AsideQueries, hasDeadline \in BOOLEAN : Execute(q, hasDeadline)
    \/ CallStep
    \/ Tick
    \/ \E gone \in Evictions(items) : OtherSet(gone)
    \/ OtherClear
    \/ Sweep

SpecAside == AsideInit /\ [][AsideNext]_vars

\* the worker counts SetMaxWorkers is called with
WorkerSettings == (-1)..MaxWorkers

\* the configuration of an executor: a new executor, its setters, and
\* calls of Execute that start no worker pool
ConfigInit == NewInMemoryCache /\ NewQueryExecutor

ConfigNext ==
    \/ \E n \in WorkerSettings : SetMaxWorkers(n)
    \/ \E kind \in {"noop", "mem"} : SetCache(kind)
    \/ \E q \in ConfigQueries, hasDeadline \in BOOLEAN : Execute(q, hasDeadline)
    \/ EngineStep
    \/ Unwind
    \/ Cancel

SpecConfig == ConfigInit /\ [][ConfigNext]_vars

\* the cache on its own: no call of the executor runs
CacheInit == NewInMemoryCache /\ ExecIdle(1, "noop")

CacheNext ==
    \/ \E k \in Keys : Get(k)
    \/ \E k \in Keys, v \in Values, ttl \in TTLs, gone \in Evictions(items) :
          Set(k, v, ttl, gone)
    \/ \E k \in Keys : Delete(k)
    \/ Clear
    \/ cleanup
    \/ Tick

SpecCache == CacheInit /\ [][CacheNext]_vars

(***************************************************************************)
(* internal/parser: parser.go and the validation helpers                   *)
(***************************************************************************)

\* the i-th character of a string, and the string from its i-th character
Char(str, i) == SubSeq(str, i, i)
From(str, i) == SubSeq(str, i, Len(str))

UpperLetters == "ABCDEFGHIJKLMNOPQRSTUVWXYZ"
LowerLetters == "abcdefghijklmnopqrstuvwxyz"
DigitChars == {"0", "1", "2", "3", "4", "5", "6", "7", "8", "9"}
HexChars ==
    DigitChars \cup {"a", "b", "c", "d", "e", "f"} \cup {"A", "B", "C", "D", "E", "F"}

\* unicode.IsSpace, unicode.IsControl and unicode.IsPrint on the characters
\* of the inputs; Del is U+007F, a control character that is no space
Del == ""
IsSpace(c) == c \in {" ", "\t", "\n", "\r", "\f"}
IsControl(c) == c \in {"\t", "\n", "\r", "\f", Del}
IsPrint(c) == ~IsControl(c)

\* the letter of the alphabet to that stands where c stands in from
MapLetter(c, from, to) ==
    IF \E i \in 1..Len(from) : Char(from, i) = c
    THEN Char(to, CHOOSE i \in 1..Len(from) : Char(from, i) = c)
    ELSE c

\* the strings pieces[lo], ..., pieces[hi] written one after the other, as a
\* strings.Builder collects what a loop writes
RECURSIVE Concat(_, _, _)
Concat(pieces, lo, hi) ==
    IF lo > hi THEN ""
    ELSE IF lo = hi THEN pieces[lo]
    ELSE Concat(pieces, lo, (lo + hi) \div 2) \o Concat(pieces, (lo + hi) \div 2 + 1, hi)

\* strings.ToUpper and strings.ToLower
ToUpper(str) ==
    Concat([i \in 1..Len(str) |-> MapLetter(Char(str, i), LowerLetters, UpperLetters)],
           1, Len(str))

ToLower(str) ==
    Concat([i \in 1..Len(str) |-> MapLetter(Char(str, i), UpperLetters, LowerLetters)],
           1, Len(str))

\* strings.HasPrefix
HasPrefix(str, prefix) ==
    Len(str) >= Len(prefix) /\ SubSeq(str, 1, Len(prefix)) = prefix

\* strings.TrimSpace
TrimLeft(str) ==
    IF \A i \in 1..Len(str) : IsSpace(Char(str, i)) THEN ""
    ELSE From(str, CHOOSE i \in 1..Len(str) :
                       ~IsSpace(Char(str, i)) /\ \A j \in 1..(i - 1) : IsSpace(Char(str, j)))

TrimRight(str) ==
    IF \A i \in 1..Len(str) : IsSpace(Char(str, i)) THEN ""
    ELSE SubSeq(str, 1, CHOOSE i \in 1..Len(str) :
                            /\ ~IsSpace(Char(str, i))
                            /\ \A j \in (i + 1)..Len(str) : IsSpace(Char(str, j)))

TrimSpace(str) == TrimRight(TrimLeft(str))

\* prevWasControl when the loop of SanitizeInput reaches the i-th character:
\* the last character before it that the loop did not skip was a control
\* character that is no space
RECURSIVE prevWasControl(_, _)
prevWasControl(str, i) ==
    /\ i > 1
    /\ IF IsControl(Char(str, i - 1)) /\ ~IsSpace(Char(str, i - 1)) THEN TRUE
       ELSE IF IsSpace(Char(str, i - 1)) \/ IsPrint(Char(str, i - 1)) THEN FALSE
       ELSE prevWasControl(str, i - 1)

\* a loop that removes the control characters and writes nothing for them
dropControl(str, i) ==
    IF IsControl(Char(str, i)) /\ ~IsSpace(Char(str, i)) THEN ""
    ELSE IF IsSpace(Char(str, i)) THEN " "
    ELSE Char(str, i)

\* what the loop of SanitizeInput writes to cleaned at the i-th character
SanitizeLoop(str, i) ==
    IF IsControl(Char(str, i)) /\ ~IsSpace(Char(str, i)) THEN ""
    ELSE IF IsSpace(Char(str, i)) THEN " "
    ELSE IF IsPrint(Char(str, i))
    THEN (IF prevWasControl(str, i) THEN " " ELSE "") \o Char(str, i)
    ELSE ""

\* normalizeWhitespace: what its loop writes at the i-th character, and its
\* result, where runs of spaces have become one space
lastWasSpace(str, i) == i > 1 /\ IsSpace(Char(str, i - 1))

normalizeWhitespace(str) ==
    Concat([i \in 1..Len(str) |->
                IF IsSpace(Char(str, i))
                THEN (IF lastWasSpace(str, i) THEN "" ELSE " ")
                ELSE Char(str, i)],
           1, Len(str))

\* SanitizeInput
SanitizeInput(str) ==
    normalizeWhitespace(
        TrimSpace(Concat([i \in 1..Len(str) |-> SanitizeLoop(str, i)], 1, Len(str))))

\* the substring of str at i is word
At(str, i, word) ==
    i + Len(word) - 1 <= Len(str) /\ SubSeq(str, i, i + Len(word) - 1) = word

\* the regular expression first\s*second, or first\s+second when min = 1,
\* matches somewhere in str
MatchString(str, first, min, second) ==
    \E i \in 1..Len(str) :
        /\ At(str, i, first)
        /\ \E n \in min..(Len(str) - i - Len(first) + 1) :
               /\ \A j \in 1..n : IsSpace(Char(str, i + Len(first) + j - 1))
               /\ At(str, i + Len(first) + n, second)

\* dangerousPatterns: the alternatives of the case-insensitive pattern
statementWords == {"drop", "insert", "update", "delete", "create", "alter"}
dangerousPatterns(str) ==
    \/ MatchString(ToLower(str), "union", 1, "select")
    \/ \E word \in statementWords : MatchString(ToLower(str), ";", 0, word)
    \/ MatchString(ToLower(str), "exec", 0, "(")
    \/ MatchString(ToLower(str), "<script", 0, "")
    \/ MatchString(ToLower(str), "javascript:", 0, "")
    \/ MatchString(ToLower(str), "eval", 0, "(")

\* ValidateNoSQLInjection
ValidateNoSQLInjection(str) == ~dangerousPatterns(str)

\* strings.Fields: the maximal runs of non-space characters, in their order
FieldStarts(str) ==
    {i \in 1..Len(str) : ~IsSpace(Char(str, i)) /\ (i = 1 \/ IsSpace(Char(str, i - 1)))}

FieldEnd(str, start) ==
    CHOOSE end \in start..Len(str) :
        /\ end = Len(str) \/ IsSpace(Char(str, end + 1))
        /\ \A i \in start..end : ~IsSpace(Char(str, i))

Fields(str) ==
    LET starts == FieldStarts(str)
    IN  [k \in 1..Cardinality(starts) |->
            LET start == CHOOSE i \in starts : Cardinality({j \in starts : j <= i}) = k
            IN  SubSeq(str, start, FieldEnd(str, start))]

\* the number of hex digits of an address, and the limits of ParseQuery
addressDigits == 40
maxQueryLen == 10000
maxParseRange == 10000

\* every character of str is in the set chars
AllIn(str, chars) == \A i \in 1..Len(str) : Char(str, i) \in chars

\* NormalizeAddress: trimmed, lower case, with the 0x prefix; and the same
\* without the change of case
KeepCase(addr) ==
    IF HasPrefix(TrimSpace(addr), "0x") THEN TrimSpace(addr) ELSE "0x" \o TrimSpace(addr)

NormalizeAddress(addr) ==
    LET lower == ToLower(TrimSpace(addr))
    IN  IF HasPrefix(lower, "0x") THEN lower ELSE "0x" \o lower

\* ValidateAddressFormat: addressPattern ^0x[0-9a-fA-F]{40}$ matches
ValidateAddressFormat(addr) ==
    /\ Len(addr) = 2 + addressDigits
    /\ HasPrefix(addr, "0x")
    /\ AllIn(From(addr, 3), HexChars)

\* go-ethereum's has0xPrefix, common.IsHexAddress and common.HexToAddress;
\* an address is written as its 40 hex digits in lower case
has0xPrefix(str) == HasPrefix(str, "0x") \/ HasPrefix(str, "0X")
IsHexAddress(str) ==
    LET digits == IF has0xPrefix(str) THEN From(str, 3) ELSE str
    IN  Len(digits) = addressDigits /\ AllIn(digits, HexChars)
HexToAddress(str) == ToLower(IF has0xPrefix(str) THEN From(str, 3) ELSE str)

\* the value of a string of decimal digits
RECURSIVE Decimal(_, _)
Decimal(str, acc) ==
    IF str = "" THEN acc
    ELSE Decimal(From(str, 2),
                 10 * acc + (CHOOSE d \in 0..9 : ToString(d) = Char(str, 1)))

\* new(big.Int).SetString(str, 10): an optional sign, then decimal digits
SetString(str) ==
    LET signed == str # "" /\ Char(str, 1) \in {"+", "-"}
        digits == IF signed THEN From(str, 2) ELSE str
    IN  IF digits = "" \/ ~AllIn(digits, DigitChars) THEN [ok |-> FALSE, val |-> 0]
        ELSE [ok |-> TRUE,
              val |-> IF signed /\ Char(str, 1) = "-" THEN 0 - Decimal(digits, 0)
                      ELSE Decimal(digits, 0)]

\* what ParseQuery returns
ParseOk(q) == [status |-> "ok", err |-> "", query |-> q]
ParseErr(kind) == [status |-> "err", err |-> kind, query |-> Query("", "", Nil, Nil)]

validMethods == {"BALANCE", "LOGS", "TRANSACTIONS"}

\* a parser that takes any order of the bounds
anyOrder(from, to) == FALSE

\* fromBlock.Cmp(toBlock) > 0
inverted(from, to) == from > to

\* the range check of ParseQuery, with >= for >
parseRangeReached(from, to) == to - from >= maxParseRange

\* the range check of ParseQuery: blockRange.Cmp(big.NewInt(10000)) > 0
parseRangeExceeded(from, to) == to - from > maxParseRange

\* a parser that takes no notice of what follows the address
IgnoreBlock(method, address, parts) == ParseOk(Query(method, address, Nil, Nil))

\* the BLOCK clause of ParseQuery, parts holding at least 5 fields
ParseBlock(method, address, parts) ==
    IF Len(parts) < 7 THEN ParseErr("MissingBlockBound")
    ELSE LET from == SetString(TrimSpace(parts[6]))
             to == SetString(TrimSpace(parts[7]))
         IN  IF ~from.ok \/ from.val < 0 THEN ParseErr("InvalidFromBlock")
             ELSE IF ~to.ok \/ to.val < 0 THEN ParseErr("InvalidToBlock")
             ELSE IF inverted(from.val, to.val) THEN ParseErr("InvertedRange")
             ELSE IF parseRangeExceeded(from.val, to.val) THEN ParseErr("RangeTooLarge")
             ELSE ParseOk(Query(method, address, Some(from.val), Some(to.val)))

\* ParseQuery from the address on, parts holding at least 4 fields
ParseAddress(method, parts) ==
    LET address == NormalizeAddress(parts[4])
    IN  IF ~ValidateAddressFormat(address) THEN ParseErr("InvalidAddress")
        ELSE IF ~IsHexAddress(address) THEN ParseErr("InvalidAddress")
        ELSE IF Len(parts) > 4 /\ ToUpper(parts[5]) = "BLOCK"
        THEN ParseBlock(method, HexToAddress(address), parts)
        ELSE ParseOk(Query(method, HexToAddress(address), Nil, Nil))

\* a parser that looks at the address before it looks at the method
addressFirst(str) ==
    LET queryStr == SanitizeInput(str)
        parts == Fields(queryStr)
    IN  IF Len(queryStr) = 0 THEN ParseErr("EmptyQuery")
        ELSE IF Len(queryStr) > maxQueryLen THEN ParseErr("QueryTooLong")
        ELSE IF \/ Len(parts) < 4
                \/ ToUpper(parts[1]) # "SELECT"
                \/ ToUpper(parts[3]) # "FROM"
        THEN ParseErr("InvalidFormat")
        ELSE IF ParseAddress(ToUpper(parts[2]), parts).err = "InvalidAddress"
        THEN ParseErr("InvalidAddress")
        ELSE IF ToUpper(parts[2]) \notin validMethods THEN ParseErr("UnsupportedMethod")
        ELSE ParseAddress(ToUpper(parts[2]), parts)

\* ParseQuery(queryStr)
ParseQuery(str) ==
    LET queryStr == SanitizeInput(str)
        parts == Fields(queryStr)
    IN  IF Len(queryStr) = 0 THEN ParseErr("EmptyQuery")
        ELSE IF Len(queryStr) > maxQueryLen THEN ParseErr("QueryTooLong")
        ELSE IF \/ Len(parts) < 4
                \/ ToUpper(parts[1]) # "SELECT"
                \/ ToUpper(parts[3]) # "FROM"
        THEN ParseErr("InvalidFormat")
        ELSE IF ToUpper(parts[2]) \notin validMethods THEN ParseErr("UnsupportedMethod")
        ELSE ParseAddress(ToUpper(parts[2]), parts)

\* n copies of a string
RECURSIVE Rep(_, _)
Rep(unit, n) ==
    IF n = 0 THEN ""
    ELSE LET half == Rep(unit, n \div 2)
         IN  half \o half \o (IF n % 2 = 1 THEN unit ELSE "")

\* address tokens: two accounts, in lower, upper and mixed case, with and
\* without a 0x or 0X prefix, and tokens that are no address
AddressTokens ==
    {prefix \o Rep(unit, addressDigits \div 2) :
        prefix \in {"", "0x", "0X"}, unit \in {"ab", "AB", "aB", "c1"}}
    \cup {"0x" \o Rep("ab", addressDigits \div 2 - 1) \o "a",
          Rep("ab", addressDigits \div 2) \o "a",
          "0x" \o Rep("ag", addressDigits \div 2),
          "0x",
          "0x0x" \o Rep("ab", addressDigits \div 2 - 1)}

\* what may follow the address
BlockClauses ==
    {"", " BLOCK 5 5", " block 0 10000", " BLOCK 0 10001", " BLOCK 5 10005",
     " BLOCK 5 10006", " BLOCK 7 3", " BLOCK 4 3", " BLOCK 20000 3", " BLOCK 5",
     " BLOCK", " BLOCK -1 5", " BLOCK 5 x", " BLOCK +5  5", " LIMIT 1 2",
     " BLOCK\t3 7 9 ", " BLOCK -1 x", " BLOCK x"}

\* the strings the model passes to ParseQuery
Inputs ==
    {head \o " FROM " \o address \o clause :
        head \in {"SELECT BALANCE", "SELECT LOGS", "  select\tlogs",
                  "Select TRANSACTIONS", "SELECT CALL"},
        address \in AddressTokens,
        clause \in BlockClauses}
    \cup {"", " \t ", "SELECT BALANCE FROM", "DROP TABLE FROM users", "SELECT CALL"}
    \cup {Rep("a", maxQueryLen + 1), "SELECT CALL FROM 0x " \o Rep("a", maxQueryLen)}

\* the variables of the executor that the parser never writes
engineState ==
    <<maxWorkers, cacheKind, query, ctxDerived, ctxDone, mpc, fromBlock, toBlock,
      blockChan, blockClosed, resultChan, resultClosed, wpc, wres, fpc, fnext, cpc,
      allTransactions, result, crashed, failed, cancelMidScan, itemsAtCall, prevOk,
      calls, upstream, workersSet, storedFor>>

engineVars == <<engineState, invalidated>>

\* the caller reads a line
Read(str) ==
    /\ parsed # NoParse
    /\ input' = str
    /\ parsed' = NoParse
    /\ sanitized' = ""
    /\ UNCHANGED <<engineVars, cacheVars>>

\* the caller passes the line to ParseQuery
Parse ==
    /\ parsed = NoParse
    /\ sanitized' = SanitizeInput(input)
    /\ parsed' = ParseQuery(input)
    /\ UNCHANGED <<input, engineVars, cacheVars>>

\* the parser on its own: lines are read and parsed, no query is executed
ParseInit ==
    /\ NewInMemoryCache /\ maxItems = MaxCap
    /\ ExecFields(defaultMaxWorkers, "noop")
    /\ input \in Inputs
    /\ parsed = NoParse /\ sanitized = ""
    /\ invalidated = Nil

ParseNext ==
    \/ \E str \in Inputs : Read(str)
    \/ Parse

SpecParse == ParseInit /\ [][ParseNext]_vars

\* the longest of the short lines, and their characters
MaxLen == 4
Alphabet == {"a", "b", " ", "\t", Del}

\* every string of at most n characters of the alphabet
RECURSIVE Strings(_)
Strings(n) ==
    IF n = 0 THEN {""}
    ELSE LET shorter == Strings(n - 1)
         IN  shorter \cup {str \o c : str \in shorter, c \in Alphabet}

\* a query of the grammar, and lines longer than the limit of ParseQuery:
\* by other characters, by spaces and by control characters
BalanceLine == "SELECT BALANCE FROM 0x" \o Rep("ab", addressDigits \div 2)
LongLines ==
    {Rep("a", maxQueryLen), Rep("a", maxQueryLen + 1),
     BalanceLine \o " " \o Rep("a", maxQueryLen),
     BalanceLine \o Rep(" ", maxQueryLen),
     Rep("\t", maxQueryLen) \o BalanceLine,
     "SELECT BALANCE" \o Rep(" ", maxQueryLen) \o "FROM 0x" \o Rep("ab", addressDigits \div 2),
     BalanceLine \o Rep(Del, maxQueryLen)}

\* lines that hold a pattern of dangerousPatterns, and lines of the grammar
InjectionLines ==
    {BalanceLine \o tail :
        tail \in {" UNION SELECT x", " union\t select", " ; DROP TABLE users", " ;drop",
                  " ; insert", " ;UPDATE", " ; Delete", " ;create", " ; ALTER",
                  " <script>", " javascript:alert", "; DROP TABLE users", "<script>",
                  " BLOCK 1 2 ; DROP", " BLOCK 1 ;drop", " BLOCK 1 2", ""}}
    \cup {"<script> " \o BalanceLine, "SELECT BALANCE FROM javascript:x",
          "SELECT LOGS FROM 0x" \o Rep("c1", addressDigits \div 2) \o " BLOCK 1 2",
          "select transactions from " \o Rep("AB", addressDigits \div 2)}

\* the lines the help text documents
HelpLines ==
    {method \o " FROM 0x" \o Rep("ab", addressDigits \div 2) \o clause :
        method \in {"SELECT BALANCE", "SELECT LOGS", "SELECT TRANSACTIONS"},
        clause \in {"", " BLOCK 5", " BLOCK 5 7"}}

Lines == Strings(MaxLen) \cup LongLines \cup InjectionLines \cup HelpLines

\* ParseQuery on one line, the short lines of the alphabet included
LineInit ==
    /\ NewInMemoryCache /\ maxItems = MaxCap
    /\ ExecFields(defaultMaxWorkers, "noop")
    /\ input \in Lines
    /\ parsed = NoParse /\ sanitized = ""
    /\ invalidated = Nil

LineNext == Parse

SpecLine == LineInit /\ [][LineNext]_vars

(***************************************************************************)
(* internal/cache/invalidation.go                                          *)
(***************************************************************************)

\* c.Keys() of the installed cache
CacheKeys == IF cacheKind = "mem" THEN DOMAIN items ELSE {}

\* InvalidateByPrefix(c, prefix) on the map its, no other call of the cache
\* running between its Keys and its last Delete: the count it returns and
\* the map it leaves
matchesNone(key, prefix) == FALSE
matchesPrefix(key, prefix) == HasPrefix(key, prefix)

invalidateByPrefix(its, keys, prefix) ==
    LET hit == {key \in keys : matchesPrefix(key, prefix)}
    IN  [count |-> Cardinality(hit),
         items |-> [x \in DOMAIN its \ hit |-> its[x]]]

\* the three prefixes of InvalidateByAddress
addressPrefixes(address) ==
    <<"balance:" \o address, "logs:" \o address, "transactions:" \o address>>

\* the record of an invalidation call
Invalidation(name, arg, count) ==
    Some([call |-> name, arg |-> arg, count |-> count])

\* InvalidateByPrefix(c, prefix), called between two calls of Execute
InvalidateByPrefix(prefix) ==
    /\ ~crashed /\ Quiescent /\ mpc = "idle"
    /\ LET r == invalidateByPrefix(items, CacheKeys, prefix)
       IN  /\ items' = r.items
           /\ invalidated' = Invalidation("InvalidateByPrefix", prefix, r.count)
    /\ UNCHANGED <<maxItems, defaultTTL, lockVars, scanLog, now, written, lastOp,
                   engineState, input, parsed, sanitized>>

\* InvalidateByAddress(c, address): the sum of three calls of
\* InvalidateByPrefix, each on the map the one before left
InvalidateByAddress(address) ==
    /\ ~crashed /\ Quiescent /\ mpc = "idle"
    /\ LET prefixes == addressPrefixes(address)
           r1 == invalidateByPrefix(items, CacheKeys, prefixes[1])
           r2 == invalidateByPrefix(r1.items, CacheKeys \cap DOMAIN r1.items, prefixes[2])
           r3 == invalidateByPrefix(r2.items, CacheKeys \cap DOMAIN r2.items, prefixes[3])
       IN  /\ items' = r3.items
           /\ invalidated' =
                  Invalidation("InvalidateByAddress", address, r1.count + r2.count + r3.count)
    /\ UNCHANGED <<maxItems, defaultTTL, lockVars, scanLog, now, written, lastOp,
                   engineState, input, parsed, sanitized>>

\* the caller has taken the result of a call and may pass another query:
\* what the call left behind is the cache, nothing of its frame
Forget ==
    /\ ~crashed /\ Quiescent /\ mpc = "returned"
    /\ mpc' = "idle"
    /\ query' = Query("TRANSACTIONS", AddrA, Nil, Nil)
    /\ ctxDerived' = FALSE /\ ctxDone' = FALSE
    /\ fromBlock' = Nil /\ toBlock' = Nil
    /\ blockChan' = <<>> /\ blockClosed' = FALSE
    /\ resultChan' = <<>> /\ resultClosed' = FALSE
    /\ wpc' = [w \in Workers |-> "off"]
    /\ wres' = [w \in Workers |-> NoBlockResult]
    /\ fpc' = "off" /\ fnext' = 0 /\ cpc' = "off"
    /\ allTransactions' = <<>>
    /\ result' = NoResult
    /\ failed' = {}
    /\ cancelMidScan' = FALSE
    /\ itemsAtCall' = EmptyMap
    /\ prevOk' = Nil
    /\ calls' = NoCalls
    /\ upstream' = NoFailure
    /\ scanLog' = NoScanLog
    /\ UNCHANGED <<maxWorkers, cacheKind, crashed, workersSet, storedFor, input, parsed,
                   sanitized, invalidated, cacheKept>>

\* the queries and the prefixes of the specification of the invalidation
KeyQueries ==
    {Query("BALANCE", AddrA, Some(0), Some(0)), Query("BALANCE", AddrA, Some(0), Some(MaxBlock)),
     Query("BALANCE", AddrB, Some(0), Some(0)),
     Query("LOGS", AddrA, Some(0), Some(0)), Query("LOGS", AddrA, Nil, Nil),
     Query("LOGS", AddrA, Some(0), Some(maxLogsRange + 1)),
     Query("TRANSACTIONS", AddrA, Some(0), Some(0)), Query("TRANSACTIONS", AddrA, Nil, Nil),
     Query("TRANSACTIONS", AddrA, Some(0), Some(maxBlockRange + 1)),
     Query("CALL", AddrA, Nil, Nil)}
Prefixes == {"", "balance:", "logs:", "transactions:", "balance:" \o AddrA}

\* the engine over the in-memory cache, queries of two addresses, and the
\* invalidation calls between the calls of Execute
InvalidateInit ==
    /\ items = EmptyMap
    /\ maxItems = MaxCap + 1
    /\ defaultTTL \in DefaultTTLs
    /\ now = 0
    /\ written = [x \in Keys |-> NoItem]
    /\ lastOp = Op("New", "", None, FALSE, {})
    /\ LockIdle
    /\ ExecIdle(1, "mem")

InvalidateNext ==
    \/ \E q \in KeyQueries : Execute(q, TRUE)
    \/ CallStep
    \/ Forget
    \/ \E prefix \in Prefixes : InvalidateByPrefix(prefix)
    \/ \E address \in {AddrA, AddrB} : InvalidateByAddress(address)

SpecInvalidate == InvalidateInit /\ [][InvalidateNext]_vars

(***************************************************************************)
(* internal/cache/cache.go: NoOpCache                                      *)
(***************************************************************************)

\* qe.cache.Size(), for the installed cache
CacheSize == IF cacheKind = "mem" THEN Size(items) ELSE 0

\* the caller's own calls of the installed NoOpCache, between two calls of
\* Execute: Get returns nil and false, Set, Delete and Clear do nothing
NoOpCall == ~crashed /\ Quiescent /\ mpc = "idle" /\ cacheKind = "noop"

NoOpGet(k) ==
    /\ NoOpCall
    /\ lastOp' = Op("Get", k, CacheGet(k).value, CacheGet(k).found, {})
    /\ UNCHANGED <<items, maxItems, defaultTTL, lockVars, scanLog, now, written, execVars>>

NoOpSet(k, v) ==
    /\ NoOpCall
    /\ items' \in CacheSet(k, v)
    /\ lastOp' = Op("Set", k, v, FALSE, {})
    /\ UNCHANGED <<maxItems, defaultTTL, lockVars, scanLog, now, written, execVars>>

NoOpDelete(k) ==
    /\ NoOpCall
    /\ lastOp' = Op("Delete", "", None, FALSE, {})
    /\ UNCHANGED <<items, maxItems, defaultTTL, lockVars, scanLog, now, written, execVars>>

NoOpClear ==
    /\ NoOpCall
    /\ lastOp' = Op("Clear", "", None, FALSE, {})
    /\ UNCHANGED <<items, maxItems, defaultTTL, lockVars, scanLog, now, written, execVars>>

\* queries of each method, with and without block bounds, within and beyond
\* the range limits
NoOpQueries ==
    {Query("BALANCE", AddrA, Some(0), Some(0)),
     Query("LOGS", AddrA, Some(0), Some(0)), Query("LOGS", AddrA, Nil, Nil),
     Query("LOGS", AddrA, Some(0), Some(maxLogsRange + 1)),
     Query("TRANSACTIONS", AddrA, Some(0), Some(0)), Query("TRANSACTIONS", AddrA, Nil, Nil),
     Query("TRANSACTIONS", AddrA, Some(0), Some(maxBlockRange + 1)),
     Query("CALL", AddrA, Nil, Nil)}

\* an executor that starts with the NoOpCache of NewQueryExecutor, the
\* in-memory cache installed and taken out again between calls
NoOpInit == NewInMemoryCache /\ maxItems = MaxCap /\ ExecIdle(1, "noop")

NoOpNext ==
    \/ \E kind \in {"noop", "mem"} : SetCache(kind)
    \/ \E q \in NoOpQueries : Execute(q, TRUE)
    \/ CallStep
    \/ Forget
    \/ \E k \in Keys : NoOpGet(k)
    \/ \E k \in Keys, v \in Values : NoOpSet(k, v)
    \/ \E k \in Keys : NoOpDelete(k)
    \/ NoOpClear

SpecNoOp == NoOpInit /\ [][NoOpNext]_vars

(***************************************************************************)
(* internal/cache/cache.go: the calls of the cache under its RWMutex, the  *)
(* cleanupLoop goroutine and Stop; invalidation.go: InvalidateByPrefix as  *)
(* the sequence of calls it is.                                            *)
(***************************************************************************)

\* the variables of the executor and the parser but crashed
execNoCrash ==
    <<maxWorkers, cacheKind, query, ctxDerived, ctxDone, mpc, fromBlock, toBlock, blockChan,
      blockClosed, resultChan, resultClosed, wpc, wres, fpc, fnext, cpc, allTransactions,
      result, failed, cancelMidScan, itemsAtCall, prevOk, calls, upstream, workersSet,
      storedFor, input, parsed, sanitized, invalidated>>

\* what the callers of the cache never write
callerKept == <<maxItems, defaultTTL, now, written, scanLog, cleanupEvery, execNoCrash>>

\* a write lock that is granted while readers hold the mutex
lockOverReaders(m) == m.writer = {}

\* c.mu.RLock() and c.mu.Lock() return: no writer holds the mutex, and for
\* Lock no reader either; a Lock that is blocked keeps new readers out
canRLock(m) == m.writer = {} /\ m.waiting = {}
canLock(m) == m.writer = {} /\ m.readers = {}

\* the names of the reading and of the writing calls
ReadOps == {"Get", "Size", "Keys"}
WriteOps == {"Set", "Delete", "Clear"}

\* a call of the goroutine g
StartCall(g, op, k, v, ttl, pc) ==
    [gcall EXCEPT ![g] = [NoCall EXCEPT !.op = op, !.pc = pc, !.key = k, !.value = v,
                                        !.ttl = ttl]]

\* Get(k), Size() or Keys() is called and takes the read lock
RLock(g, op, k) ==
    /\ ~crashed /\ gcall[g].pc = "idle"
    /\ op \in ReadOps /\ (op # "Get" => k = "")
    /\ canRLock(mu)
    /\ mu' = [mu EXCEPT !.readers = @ \cup {g}]
    /\ gcall' = StartCall(g, op, k, None, 0, "read")
    /\ UNCHANGED <<items, lastOp, stopCleanup, spc, crashed, callerKept>>

\* a Get that deletes the entry it finds expired
expireOnRead(its, op, k, t) ==
    IF op = "Get" /\ k \in DOMAIN its /\ Expired(its[k], t) THEN MapDelete(its, k) ELSE its

\* the map a reading call leaves
afterRead(its, op, k, t) == its

\* what a reading call returns
ReadReturn(its, op, k, t) ==
    CASE op = "Get" -> Op("Get", k, GetResult(its, k, t).value, GetResult(its, k, t).found, {})
      [] op = "Size" -> [op |-> "Size", size |-> Size(its)]
      [] op = "Keys" -> [op |-> "Keys", keys |-> DOMAIN its]

\* the body of Get, Size or Keys and its deferred RUnlock
RUnlock(g) ==
    /\ ~crashed /\ gcall[g].pc = "read"
    /\ lastOp' = ReadReturn(items, gcall[g].op, gcall[g].key, now)
    /\ items' = afterRead(items, gcall[g].op, gcall[g].key, now)
    /\ mu' = [mu EXCEPT !.readers = @ \ {g}]
    /\ gcall' = [gcall EXCEPT ![g] = NoCall]
    /\ UNCHANGED <<stopCleanup, spc, crashed, callerKept>>

\* Set(k, v, ttl), Delete(k) or Clear() is called and takes the write lock
Lock(g, op, k, v, ttl) ==
    /\ ~crashed /\ gcall[g].pc = "idle"
    /\ op \in WriteOps
    /\ (op = "Clear" => k = "") /\ (op # "Set" => (v = None /\ ttl = 0))
    /\ canLock(mu)
    /\ mu' = [mu EXCEPT !.writer = {g}]
    /\ gcall' = StartCall(g, op, k, v, ttl, "write")
    /\ UNCHANGED <<items, lastOp, stopCleanup, spc, crashed, callerKept>>

\* the maps a writing call may leave
WriteResults(its, op, k, v, ttl, t) ==
    CASE op = "Set" -> {SetResult(its, k, v, ttl, gone, t) : gone \in Evictions(its)}
      [] op = "Delete" -> {MapDelete(its, k)}
      [] op = "Clear" -> {EmptyMap}

\* the calls of the other goroutines, for which a Set of the key k by the
\* goroutine g falls into their InvalidateByPrefix
NoteSet(g, op, k) ==
    [h \in Goroutines |->
        IF h = g THEN NoCall
        ELSE IF op = "Set" /\ gcall[h].op = "InvalidateByPrefix"
             THEN [gcall[h] EXCEPT !.reSet = @ \cup {k}]
             ELSE gcall[h]]

\* the body of Set, Delete or Clear and its deferred Unlock
Unlock(g) ==
    /\ ~crashed /\ gcall[g].pc = "write"
    /\ items' \in WriteResults(items, gcall[g].op, gcall[g].key, gcall[g].value,
                               gcall[g].ttl, now)
    /\ lastOp' = Op(gcall[g].op, gcall[g].key, None, FALSE, {})
    /\ mu' = [mu EXCEPT !.writer = {}]
    /\ gcall' = NoteSet(g, gcall[g].op, gcall[g].key)
    /\ UNCHANGED <<stopCleanup, spc, crashed, callerKept>>

\* InvalidateByPrefix(c, prefix) is called, and its c.Keys() takes the read
\* lock
KeysLock(g, prefix) ==
    /\ ~crashed /\ gcall[g].pc = "idle"
    /\ canRLock(mu)
    /\ mu' = [mu EXCEPT !.readers = @ \cup {g}]
    /\ gcall' = StartCall(g, "InvalidateByPrefix", prefix, None, 0, "keys")
    /\ UNCHANGED <<items, lastOp, stopCleanup, spc, crashed, callerKept>>

\* c.Keys() returns the keys of the map; of these the loop will delete the
\* ones with the prefix
KeysUnlock(g) ==
    /\ ~crashed /\ gcall[g].pc = "keys"
    /\ mu' = [mu EXCEPT !.readers = @ \ {g}]
    /\ gcall' = [gcall EXCEPT ![g] =
                    [@ EXCEPT !.pc = "loop",
                              !.keys = {k \in DOMAIN items : matchesPrefix(k, gcall[g].key)},
                              !.atStart = {k \in DOMAIN items : matchesPrefix(k, gcall[g].key)}]]
    /\ UNCHANGED <<items, lastOp, stopCleanup, spc, crashed, callerKept>>

\* the loop is at a key with the prefix: c.Delete(key) takes the write lock
DeleteLock(g, k) ==
    /\ ~crashed /\ gcall[g].pc = "loop" /\ k \in gcall[g].keys
    /\ canLock(mu)
    /\ mu' = [mu EXCEPT !.writer = {g}]
    /\ gcall' = [gcall EXCEPT ![g] = [@ EXCEPT !.pc = "delete", !.at = k]]
    /\ UNCHANGED <<items, lastOp, stopCleanup, spc, crashed, callerKept>>

\* c.Delete(key) deletes and unlocks, and the loop counts the key
DeleteUnlock(g) ==
    /\ ~crashed /\ gcall[g].pc = "delete"
    /\ items' = MapDelete(items, gcall[g].at)
    /\ mu' = [mu EXCEPT !.writer = {}]
    /\ gcall' = [gcall EXCEPT ![g] =
                    [@ EXCEPT !.pc = "loop", !.at = "",
                              !.keys = @ \ {gcall[g].at},
                              !.count = @ + 1,
                              !.removed = @ \cup ({gcall[g].at} \cap DOMAIN items)]]
    /\ UNCHANGED <<lastOp, stopCleanup, spc, crashed, callerKept>>

\* the loop has ended: InvalidateByPrefix returns its count
InvalidateReturn(g) ==
    /\ ~crashed /\ gcall[g].pc = "loop" /\ gcall[g].keys = {}
    /\ lastOp' = [op |-> "InvalidateByPrefix", count |-> gcall[g].count]
    /\ gcall' = [gcall EXCEPT ![g] = NoCall]
    /\ UNCHANGED <<items, mu, stopCleanup, spc, crashed, callerKept>>

\* Stop(): close(c.stopCleanup); the close of a closed channel panics
Stop(g) ==
    /\ ~crashed /\ gcall[g].pc = "idle"
    /\ stopCleanup' = "closed"
    /\ crashed' = (stopCleanup = "closed")
    /\ lastOp' = Op("Stop", "", None, FALSE, {})
    /\ UNCHANGED <<items, mu, gcall, spc, callerKept>>

\* the select of cleanupLoop takes <-ticker.C: c.cleanup() is called and
\* waits in c.mu.Lock(). With stopCleanup closed and a tick due, select takes
\* either case
SweepTick ==
    /\ ~crashed /\ spc = "select"
    /\ spc' = "lock"
    /\ mu' = [mu EXCEPT !.waiting = {"cleanupLoop"}]
    /\ UNCHANGED <<items, lastOp, gcall, stopCleanup, crashed, callerKept>>

\* the select of cleanupLoop takes <-c.stopCleanup: the goroutine returns
SweepStop ==
    /\ ~crashed /\ spc = "select" /\ stopCleanup = "closed"
    /\ spc' = "returned"
    /\ UNCHANGED <<items, lastOp, mu, gcall, stopCleanup, crashed, callerKept>>

\* cleanup() takes the write lock
SweepLock ==
    /\ ~crashed /\ spc = "lock"
    /\ canLock(mu)
    /\ mu' = [mu EXCEPT !.writer = {"cleanupLoop"}, !.waiting = {}]
    /\ spc' = "sweep"
    /\ UNCHANGED <<items, lastOp, gcall, stopCleanup, crashed, callerKept>>

\* cleanup() deletes the expired entries and unlocks; the loop selects again.
\* The record of the call names the keys it deleted
SweepUnlock ==
    /\ ~crashed /\ spc = "sweep"
    /\ items' = cleanupResult(items, now)
    /\ lastOp' = Op("cleanup", "", None, FALSE, DOMAIN items \ DOMAIN cleanupResult(items, now))
    /\ mu' = [mu EXCEPT !.writer = {}]
    /\ spc' = "select"
    /\ UNCHANGED <<gcall, stopCleanup, crashed, callerKept>>

\* the keys of the concurrent callers, and their writing calls
LockKeys == {"k1", "k2"}
WriteCalls ==
    {[op |-> "Set", key |-> k, value |-> "v1", ttl |-> 0] : k \in LockKeys}
    \cup {[op |-> "Delete", key |-> k, value |-> None, ttl |-> 0] : k \in LockKeys}
    \cup {[op |-> "Clear", key |-> "", value |-> None, ttl |-> 0]}

\* NewInMemoryCache(maxItems, defaultTTL, cleanupEvery): the cleanupLoop is
\* started if the interval is positive
NewCache(limits, intervals) ==
    /\ items = EmptyMap
    /\ maxItems \in limits
    /\ defaultTTL \in DefaultTTLs
    /\ now = 0
    /\ written = [x \in Keys |-> NoItem]
    /\ lastOp = Op("New", "", None, FALSE, {})
    /\ mu = Unlocked
    /\ gcall = [g \in Goroutines |-> NoCall]
    /\ cleanupEvery \in intervals
    /\ stopCleanup = "open"
    /\ spc = IF cleanupEvery > 0 THEN "select" ELSE "none"
    /\ ExecIdle(1, "noop")

\* the clock of the callers advances
Clock ==
    /\ ~crashed
    /\ now < MaxTime
    /\ now' = now + 1
    /\ UNCHANGED <<items, lastOp, mu, gcall, stopCleanup, spc, crashed, maxItems,
                   defaultTTL, written, scanLog, cleanupEvery, execNoCrash>>

\* two goroutines call the cache while the cleanupLoop runs, and call Stop
LockInit == NewCache(1..MaxCap, {0, 1})

LockNext ==
    \/ \E g \in Goroutines, op \in ReadOps, k \in LockKeys \cup {""} : RLock(g, op, k)
    \/ \E g \in Goroutines : RUnlock(g)
    \/ \E g \in Goroutines, c \in WriteCalls : Lock(g, c.op, c.key, c.value, c.ttl)
    \/ \E g \in Goroutines : Unlock(g)
    \/ \E g \in Goroutines : Stop(g)
    \/ SweepTick
    \/ SweepStop
    \/ SweepLock
    \/ SweepUnlock
    \/ Clock

SpecLock == LockInit /\ [][LockNext]_vars

\* the prefixes of the concurrent invalidations
LockPrefixes == {"k", "k1"}

\* two goroutines call InvalidateByPrefix, Set, Delete and Clear while the
\* cleanupLoop runs
PrefixInit == NewCache({MaxCap}, {1})

PrefixNext ==
    \/ \E g \in Goroutines, prefix \in LockPrefixes : KeysLock(g, prefix)
    \/ \E g \in Goroutines : KeysUnlock(g)
    \/ \E g \in Goroutines, k \in LockKeys : DeleteLock(g, k)
    \/ \E g \in Goroutines : DeleteUnlock(g)
    \/ \E g \in Goroutines : InvalidateReturn(g)
    \/ \E g \in Goroutines, c \in WriteCalls : Lock(g, c.op, c.key, c.value, c.ttl)
    \/ \E g \in Goroutines : Unlock(g)
    \/ SweepTick
    \/ SweepLock
    \/ SweepUnlock
    \/ Clock

SpecPrefix == PrefixInit /\ [][PrefixNext]_vars

\* the callers Set, Delete, Clear and Get while the cleanupLoop runs and is
\* not stopped, or was never started
SweepInit == NewCache({MaxCap}, {0, 1})

SweepNext ==
    \/ \E g \in Goroutines, k \in LockKeys : RLock(g, "Get", k)
    \/ \E g \in Goroutines : RUnlock(g)
    \/ \E g \in Goroutines, c \in WriteCalls : Lock(g, c.op, c.key, c.value, c.ttl)
    \/ \E g \in Goroutines : Unlock(g)
    \/ SweepTick
    \/ SweepLock
    \/ SweepUnlock
    \/ Clock

SpecSweep == SweepInit /\ [][SweepNext]_vars

\* the ticker of cleanupLoop fires at every interval; a goroutine that holds
\* the mutex finishes its body and unlocks; and the Lock of cleanup() is
\* granted when the mutex is free again and again (a waiting writer of a
\* sync.RWMutex is not starved)
FairSpecSweep ==
    /\ SpecSweep
    /\ WF_vars(SweepTick)
    /\ SF_vars(SweepLock)
    /\ WF_vars(SweepUnlock)
    /\ \A g \in Goroutines : WF_vars(RUnlock(g)) /\ WF_vars(Unlock(g))



(***************************************************************************)
(* C1: the number of stored entries never exceeds maxItems.                *)
(***************************************************************************)
C1_SizeWithinMaxItems == Size(items) <= maxItems

(***************************************************************************)
(* C2: a Get of a key whose last Set is still in force (not deleted,       *)
(* cleared, overwritten or evicted since) returns the value set while the  *)
(* clock is before the entry's expiration, and not-found once the clock is *)
(* past it, swept or not.                                                  *)
(***************************************************************************)
C2_ReadAfterWrite ==
    (lastOp.op = "Get" /\ written[lastOp.key].value # None) =>
        /\ now < written[lastOp.key].expiration =>
              (lastOp.found /\ lastOp.value = written[lastOp.key].value)
        /\ now > written[lastOp.key].expiration => ~lastOp.found

\* a Get that reports not-found for an expired entry the sweep has not removed
C2_Witness ==
    /\ lastOp.op = "Get"
    /\ lastOp.key \in DOMAIN items
    /\ written[lastOp.key].value # None
    /\ now > written[lastOp.key].expiration
    /\ ~lastOp.found

(***************************************************************************)
(* C3: a Set called with the map at or above maxItems removes exactly one  *)
(* stored entry, one of minimal expiration; a Set called below maxItems    *)
(* removes none.                                                           *)
(***************************************************************************)
C3_EvictionPolicy ==
    [][lastOp'.op = "Set" =>
        IF Size(items) >= maxItems
        THEN \E e \in DOMAIN items :
                /\ lastOp'.evicted = {e}
                /\ \A x \in DOMAIN items : items[e].expiration <= items[x].expiration
        ELSE lastOp'.evicted = {}]_vars

(***************************************************************************)
(* Vocabulary of the scanner's properties.                                 *)
(***************************************************************************)

\* getTransactionsConcurrent has returned: the result is fixed
Returned == mpc \in {"unwind", "returned"}

\* the query gives both block bounds
ExplicitBounds == query.FromBlock # Nil /\ query.ToBlock # Nil

\* the scanned range is set and passes the range check
WithinCap ==
    /\ fromBlock # Nil /\ toBlock # Nil
    /\ Val(toBlock) - Val(fromBlock) <= maxBlockRange

\* the matching transactions of the blocks from..to, in block order
RECURSIVE RangeTxs(_, _, _)
RangeTxs(addr, from, to) ==
    IF from > to THEN <<>> ELSE BlockTxs(from, addr) \o RangeTxs(addr, from + 1, to)

\* the number of matching transactions in the scanned range
Total == TxLen(RangeTxs(query.Address, Val(fromBlock), Val(toBlock)))

(***************************************************************************)
(* C4: for a query with explicit bounds within the range limit, when no    *)
(* fetch failed, the context was not cancelled and the range holds fewer   *)
(* matching transactions than the result limit, the concurrent scan        *)
(* returns the same multiset of transactions as the sequential scan.       *)
(***************************************************************************)
C4_SameMultisetAsSequential ==
    (/\ Returned /\ ExplicitBounds /\ WithinCap
     /\ failed = {} /\ ~result.ctxErr
     /\ Total < maxTransactions)
    => /\ result.status = "ok"
       /\ getTransactions(query, 0).err = ""
       /\ TxBag(result.txs) = TxBag(getTransactions(query, 0).txs)

\* a scan, not a cache hit, that returned the transactions of two blocks in
\* another order than the sequential scan
C4_Witness ==
    /\ Returned /\ ExplicitBounds /\ result.status = "ok" /\ ~result.hit
    /\ Len(result.txs) >= 2
    /\ result.txs # getTransactions(query, 0).txs
    /\ TxBag(result.txs) = TxBag(getTransactions(query, 0).txs)

(***************************************************************************)
(* C5: when the context is cancelled while block numbers of the range are  *)
(* still waiting to be processed (no fetch having failed before, the range *)
(* holding no more matching transactions than the limit), the scan returns *)
(* the cancellation error with a count no greater than the number of       *)
(* matching transactions of the range, no list, and leaves the cache       *)
(* unchanged.                                                              *)
(***************************************************************************)
C5_CancelledOutcome ==
    (Returned /\ cancelMidScan /\ WithinCap /\ Total <= maxTransactions)
    => /\ result.status = "err" /\ result.err = "Cancelled"
       /\ result.n <= Total
       /\ result.txs = <<>>
       /\ items = itemsAtCall

(***************************************************************************)
(* C6: every scan that was started eventually returns to its caller.       *)
(***************************************************************************)
C6_ScanReturns == (mpc = "collect") ~> Returned

(***************************************************************************)
(* C7: once the scan has returned early with a block error or the size     *)
(* error and the context is done, no worker is left blocked sending to a   *)
(* full result channel that nobody reads any more.                         *)
(***************************************************************************)
C7_NoWorkerStuckSending ==
    ~(/\ mpc = "returned" /\ ctxDone
      /\ result.err \in {"BlockError", "ResultTooLarge"}
      /\ Len(resultChan) = maxWorkers
      /\ \E w \in Workers : wpc[w] = "send")

(***************************************************************************)
(* C8 as claimed: when a fetch failed before the scan returned and the     *)
(* context is not cancelled, the scan returns the failure of a failed      *)
(* block, no transactions, and leaves the cache unchanged.                 *)
(***************************************************************************)
C8_ReturnsBlockFailure ==
    (Returned /\ failed # {} /\ ~result.ctxErr)
    => /\ result.status = "err" /\ result.err = "BlockError"
       /\ result.blk \in failed
       /\ result.txs = <<>>
       /\ items = itemsAtCall

(***************************************************************************)
(* C8 as amended: when a fetch failed before the scan returned and the     *)
(* context is not cancelled, the scan returns an error, which is the       *)
(* failure of a failed block or the size error (the running total having   *)
(* exceeded the limit before the collector received a failure), returns no *)
(* transactions, and leaves the cache unchanged.                           *)
(***************************************************************************)
C8_AbortsOnBlockFailure ==
    (Returned /\ failed # {} /\ ~result.ctxErr)
    => /\ result.status = "err"
       /\ \/ result.err = "BlockError" /\ result.blk \in failed
          \/ result.err = "ResultTooLarge" /\ TxLen(allTransactions) > maxTransactions
       /\ result.txs = <<>>
       /\ items = itemsAtCall

\* a scan that returned a block's failure after collecting another block's
\* transactions
C8_Witness ==
    /\ Returned /\ failed # {} /\ ~result.ctxErr
    /\ result.err = "BlockError"
    /\ allTransactions # <<>>

(***************************************************************************)
(* C9: a scan whose running total exceeded 10,000 returned the size error  *)
(* and left the cache unchanged; a scan of a range holding exactly 10,000  *)
(* matching transactions, with no fetch failure and no cancellation,       *)
(* returned them; no returned list and no cached list is longer than       *)
(* 10,000.                                                                 *)
(***************************************************************************)
C9_ResultSizeGuardrail ==
    /\ (Returned /\ TxLen(allTransactions) > maxTransactions)
       => (result.err = "ResultTooLarge" /\ items = itemsAtCall)
    /\ (Returned /\ WithinCap /\ failed = {} /\ ~result.ctxErr
        /\ Total = maxTransactions)
       => (result.status = "ok" /\ TxLen(result.txs) = maxTransactions)
    /\ result.status = "ok" => TxLen(result.txs) <= maxTransactions
    /\ \A k \in DOMAIN items : TxLen(items[k].value) <= maxTransactions

\* a scan that returned exactly 10,000 transactions and cached them
C9_Witness ==
    /\ Returned /\ result.status = "ok" /\ ~result.hit
    /\ TxLen(result.txs) = maxTransactions
    /\ cacheKey \in DOMAIN items

(***************************************************************************)
(* C10: a TRANSACTIONS query without both bounds never fails for the lack  *)
(* of bounds: the process does not panic, and what the call returns on     *)
(* success is the matching transactions of the window of 100 blocks below  *)
(* the head.                                                               *)
(***************************************************************************)
C10_DefaultWindow ==
    (query.FromBlock = Nil \/ query.ToBlock = Nil)
    => /\ ~crashed
       /\ (Returned /\ result.status = "ok")
          => /\ Val(fromBlock) = Val(toBlock) - defaultWindow
             /\ TxBag(result.txs) =
                  TxBag(RangeTxs(query.Address, Val(fromBlock), Val(toBlock)))

(***************************************************************************)
(* Vocabulary of the engine's properties.                                  *)
(***************************************************************************)

\* a call of Execute has begun
Called == mpc # "idle"

\* the width of the query's range, both bounds being given
Width == Val(query.ToBlock) - Val(query.FromBlock)

(***************************************************************************)
(* C11: a LOGS query whose range is wider than 10,000 blocks and a         *)
(* TRANSACTIONS query whose range is wider than 1,000 blocks make no chain *)
(* call and no cache call, leave the cache as it was, and return the       *)
(* range error; a range of exactly 10,000 (LOGS) or 1,000 (TRANSACTIONS)   *)
(* blocks does not return the range error.                                 *)
(***************************************************************************)
C11_RangeCaps ==
    (Called /\ ExplicitBounds) =>
        /\ (query.Method = "LOGS" /\ Width > 10000) =>
              /\ calls = NoCalls /\ items = itemsAtCall
              /\ Returned => result.err = "RangeTooLarge"
        /\ (query.Method = "TRANSACTIONS" /\ Width > 1000) =>
              /\ calls = NoCalls /\ items = itemsAtCall
              /\ Returned => result.err = "RangeTooLarge"
        /\ (query.Method = "LOGS" /\ Width = 10000) =>
              (Returned => result.err # "RangeTooLarge")
        /\ (query.Method = "TRANSACTIONS" /\ Width = 1000) =>
              (Returned => result.err # "RangeTooLarge")

\* a TRANSACTIONS query over 1,001 blocks whose scan fetched a block and
\* returned
C11_Witness ==
    /\ Returned /\ ExplicitBounds
    /\ query.Method = "TRANSACTIONS" /\ Width = 1000
    /\ calls["block"] > 0

(***************************************************************************)
(* C12: a LOGS query that lacks FromBlock or ToBlock makes no chain call,  *)
(* neither reads nor writes the cache, and returns the missing-range       *)
(* error.                                                                  *)
(***************************************************************************)
C12_LogsRequiresRange ==
    (Called /\ query.Method = "LOGS" /\ ~ExplicitBounds) =>
        /\ calls = NoCalls
        /\ items = itemsAtCall
        /\ Returned => (result.status = "err" /\ result.err = "MissingRange")

\* a LOGS query with FromBlock alone that returned the missing-range error
C12_Witness ==
    /\ Returned /\ query.Method = "LOGS"
    /\ query.FromBlock # Nil /\ query.ToBlock = Nil
    /\ result.err = "MissingRange"

(***************************************************************************)
(* C13: a LOGS call whose filter call succeeded returns the size error,    *)
(* leaving the cache as it was, when the filter returned more than 10,000  *)
(* log records; when it returned 10,000 or fewer, the call returns them    *)
(* and the cache holds them under the query's key.                         *)
(***************************************************************************)
C13_LogsResultCap ==
    (Returned /\ query.Method = "LOGS" /\ calls["logs"] > 0 /\ result.cause = "") =>
        IF result.status = "err"
        THEN /\ result.err = "ResultTooLarge"
             /\ result.n > 10000
             /\ items = itemsAtCall
        ELSE /\ \E n \in 0..10000 : result.txs = Logs(n)
             /\ logsKey \in DOMAIN items
             /\ items[logsKey].value = result.txs

\* a LOGS call that fetched exactly 10,000 log records, cached and
\* returned them
C13_Witness ==
    /\ Returned /\ query.Method = "LOGS" /\ calls["logs"] > 0
    /\ result.status = "ok" /\ result.txs = Logs(10000)
    /\ logsKey \in DOMAIN items

\* the cache key of the query, by method
queryKey ==
    CASE query.Method = "BALANCE" -> balanceKey
      [] query.Method = "LOGS" -> logsKey
      [] OTHER -> cacheKey

\* the balance, filter-logs, block and head calls an Execute has made
Fetches(c) == c["balance"] + c["logs"] + c["block"] + c["head"]

\* the cache holds an entry for the query's key that has not expired
LiveEntry == queryKey \in DOMAIN items /\ ~(now > items[queryKey].expiration)

(***************************************************************************)
(* C14: when the engine looks its key up and the cache holds an unexpired  *)
(* entry for it (stored by an earlier successful Execute of the query and  *)
(* neither invalidated nor evicted since), the call returns what that      *)
(* Execute returned, without any balance, filter-logs, block or head call; *)
(* otherwise it goes on to fetch, and when it stores a result the entry    *)
(* holds the value it returns and expires after the default TTL.           *)
(***************************************************************************)
C14_CacheAside ==
    [][
        /\ (calls'["get"] = calls["get"] + 1) =>
            IF LiveEntry
            THEN /\ mpc' = "unwind"
                 /\ result'.status = "ok" /\ result'.hit
                 /\ prevOk # Nil /\ result'.txs = Val(prevOk)
                 /\ Fetches(calls') = 0
            ELSE mpc' \notin {"unwind", "returned"}
        /\ (calls'["set"] = calls["set"] + 1) =>
            /\ mpc' = "unwind" /\ result'.status = "ok" /\ ~result'.hit
            /\ Fetches(calls') > 0
            /\ queryKey \in DOMAIN items'
            /\ items'[queryKey] = cacheItem(result'.txs, now + defaultTTL)
        /\ (mpc' = "returned" /\ result'.hit) => Fetches(calls') = 0
    ]_vars

\* a second Execute of a BALANCE query answered from the cache with what
\* the first one returned, the clock having advanced within the TTL
C14_Witness ==
    /\ mpc = "returned" /\ query.Method = "BALANCE"
    /\ result.status = "ok" /\ result.hit
    /\ prevOk = Some(result.txs)
    /\ now > 0 /\ Fetches(calls) = 0

(***************************************************************************)
(* C15: once a balance, filter-logs or head-number call of an Execute has  *)
(* failed, the call has returned an error wrapping the error of the failed *)
(* call, the failed operation has been invoked once and no other chain     *)
(* call was made after it, and the cache is as it was when Execute was     *)
(* called.                                                                 *)
(***************************************************************************)
C15_UpstreamFailure ==
    (Called /\ upstream # NoFailure) =>
        /\ Returned
        /\ result.status = "err" /\ result.cause = upstream.err
        /\ result.txs = <<>>
        /\ calls[upstream.op] = 1 /\ Fetches(calls) = 1
        /\ calls["set"] = 0
        /\ items = itemsAtCall

\* a LOGS call whose filter call failed on its deadline
C15_Witness ==
    /\ mpc = "returned" /\ query.Method = "LOGS"
    /\ upstream = Failure("logs", "deadline exceeded")
    /\ result.err = "LogsError" /\ result.cause = "deadline exceeded"

(***************************************************************************)
(* C16: a call of Execute returns to its caller only through its deferred  *)
(* functions; when Execute derived the context (the caller's had no        *)
(* deadline) the context its fetches and workers read is done once the     *)
(* call has returned, with a result or with an error; when the caller's    *)
(* context had a deadline, returning leaves it as it was.                  *)
(***************************************************************************)
C16_DerivedContextReleased ==
    [][
        /\ (mpc' = "returned" /\ mpc # "returned") =>
              /\ mpc = "unwind"
              /\ IF ctxDerived THEN ctxDone' ELSE ctxDone' = ctxDone
        /\ (mpc' = "returned" /\ ctxDerived') => ctxDone'
    ]_vars

\* a call without a caller's deadline that returned a result with its
\* context live, the context being done after the return
C16_Witness ==
    /\ mpc = "returned" /\ ctxDerived
    /\ result.status = "ok" /\ ~result.ctxErr
    /\ ctxDone

(***************************************************************************)
(* C17: a new executor has 5 workers; the worker count is always at least  *)
(* 1; SetMaxWorkers(n) sets it to n when n > 0 and leaves it as it was     *)
(* when n <= 0.                                                            *)
(***************************************************************************)
C17_WorkerCount ==
    /\ maxWorkers >= 1
    /\ IF workersSet = Nil THEN maxWorkers = 5
       ELSE IF Val(workersSet).n > 0 THEN maxWorkers = Val(workersSet).n
       ELSE maxWorkers = Val(workersSet).before

\* SetMaxWorkers(0) called on an executor set to one worker
C17_Witness ==
    /\ workersSet # Nil /\ Val(workersSet).n = 0 /\ Val(workersSet).before = 1
    /\ maxWorkers = 1

(***************************************************************************)
(* The words of the claims about the parser.                               *)
(***************************************************************************)

\* the tokens of the line read
Tokens == Fields(SanitizeInput(input))

\* ParseQuery has returned for the line read
Parsed == parsed # NoParse

\* a token that is 40 hex digits, with or without a 0x prefix in either case
AddressBody(token) == IF has0xPrefix(token) THEN From(token, 3) ELSE token
ValidAddressToken(token) ==
    Len(AddressBody(token)) = addressDigits /\ AllIn(AddressBody(token), HexChars)

\* the line reads SELECT <method> FROM <token> ..., and its address token is
\* valid
SelectFrom ==
    /\ Len(Tokens) >= 4
    /\ ToUpper(Tokens[1]) = "SELECT"
    /\ ToUpper(Tokens[2]) \in validMethods
    /\ ToUpper(Tokens[3]) = "FROM"
SelectFromAddress == SelectFrom /\ ValidAddressToken(Tokens[4])

\* a token that is a non-negative integer
BlockNumber(token) == SetString(token).ok /\ SetString(token).val >= 0

\* the line reads SELECT <method> FROM <valid address> BLOCK a b
BlockAB ==
    /\ SelectFromAddress
    /\ Len(Tokens) >= 7
    /\ ToUpper(Tokens[5]) = "BLOCK"
    /\ BlockNumber(Tokens[6])
    /\ BlockNumber(Tokens[7])
BoundA == SetString(Tokens[6]).val
BoundB == SetString(Tokens[7]).val

(***************************************************************************)
(* C18: a Query returned by ParseQuery has both block bounds or neither,   *)
(* and bounds with 0 <= FromBlock <= ToBlock; a line SELECT <method> FROM  *)
(* <valid address> BLOCK a b with non-negative integers a > b is rejected  *)
(* with the error of an inverted range.                                    *)
(***************************************************************************)
C18_ParsedRangeOrdering ==
    Parsed =>
        /\ parsed.status = "ok" =>
              \/ parsed.query.FromBlock = Nil /\ parsed.query.ToBlock = Nil
              \/ /\ parsed.query.FromBlock # Nil /\ parsed.query.ToBlock # Nil
                 /\ 0 <= Val(parsed.query.FromBlock)
                 /\ Val(parsed.query.FromBlock) <= Val(parsed.query.ToBlock)
        /\ (BlockAB /\ BoundA > BoundB) =>
              parsed.status = "err" /\ parsed.err = "InvertedRange"

\* a line with a > b, and a - b above the cap of the range, was rejected as
\* inverted
C18_Witness ==
    /\ Parsed /\ BlockAB
    /\ BoundA - BoundB > maxParseRange
    /\ parsed.err = "InvertedRange"

WithAddress(tokens, token) ==
    Concat([i \in 1..Len(tokens) |->
                (IF i = 4 THEN token ELSE tokens[i]) \o (IF i < Len(tokens) THEN " " ELSE "")],
           1, Len(tokens))

\* the address tokens that differ from a token in the case of their letters,
\* in the case of the prefix or in having the prefix
CaseVariants(token) ==
    {prefix \o body :
        prefix \in {"", "0x", "0X"},
        body \in {AddressBody(token), ToLower(AddressBody(token)),
                  ToUpper(AddressBody(token))}}

(***************************************************************************)
(* C20: lines that differ only in the letter case of the address token,    *)
(* the case of its 0x prefix or the presence of the prefix parse to        *)
(* queries with the same Address; a line SELECT <method> FROM <token> ...  *)
(* whose token is not 40 hex digits after an optional prefix is rejected   *)
(* with the error of an invalid address.                                   *)
(***************************************************************************)
C20_AddressCanonical ==
    Parsed =>
        /\ parsed.status = "ok" =>
              LET tokens == Tokens
              IN  \A token \in CaseVariants(tokens[4]) :
                      ParseQuery(WithAddress(tokens, token)) = ParseOk(parsed.query)
        /\ (SelectFrom /\ ~ValidAddressToken(Tokens[4])) =>
              parsed.status = "err" /\ parsed.err = "InvalidAddress"

\* a line whose address token is in upper case with the prefix 0X was parsed
\* to a query with the address in its canonical form
C20_Witness ==
    /\ Parsed /\ parsed.status = "ok"
    /\ HasPrefix(Tokens[4], "0X")
    /\ AddressBody(Tokens[4]) = ToUpper(AddressBody(Tokens[4]))
    /\ Tokens[4] # ToLower(Tokens[4])
    /\ parsed.query.Address = ToLower(AddressBody(Tokens[4]))

(***************************************************************************)
(* C21: every line longer than 10,000 characters is rejected by ParseQuery *)
(* with the error of a query too long, whatever the line holds, spaces and *)
(* control characters included.                                            *)
(***************************************************************************)
C21_QueryLengthLimit ==
    (Parsed /\ Len(input) > 10000) =>
        parsed.status = "err" /\ parsed.err = "QueryTooLong"

\* the line holds one of the injection patterns the specification names
KnownInjection(str) ==
    \/ MatchString(ToLower(str), "union", 1, "select")
    \/ \E word \in statementWords : MatchString(ToLower(str), ";", 0, word)
    \/ MatchString(ToLower(str), "<script", 0, "")
    \/ MatchString(ToLower(str), "javascript:", 0, "")

(***************************************************************************)
(* C22: ParseQuery rejects, with the error of an injection, every line     *)
(* that holds a known injection pattern, wherever the pattern stands in    *)
(* the line; a line made of the words of the grammar only is accepted.     *)
(***************************************************************************)
C22_InjectionRejected ==
    Parsed =>
        /\ KnownInjection(input) =>
              parsed.status = "err" /\ parsed.err = "InjectionRejected"
        /\ (input \in HelpLines /\ BlockAB) => parsed.status = "ok"

C24_SingleBlockBalance ==
    (/\ Parsed /\ SelectFromAddress
     /\ ToUpper(Tokens[2]) = "BALANCE"
     /\ Len(Tokens) = 6 /\ ToUpper(Tokens[5]) = "BLOCK" /\ BlockNumber(Tokens[6])) =>
        /\ parsed.status = "ok"
        /\ parsed.query.Method = "BALANCE"
        /\ parsed.query.FromBlock = Some(SetString(Tokens[6]).val)

\* the printable tokens of a string: its maximal runs of characters that are
\* neither spaces nor control characters
PrintTokens(str) ==
    LET keep == {i \in 1..Len(str) : IsPrint(Char(str, i)) /\ ~IsSpace(Char(str, i))}
        starts == {i \in keep : (i - 1) \notin keep}
    IN  [k \in 1..Cardinality(starts) |->
            LET start == CHOOSE i \in starts : Cardinality({j \in starts : j <= i}) = k
                end == CHOOSE e \in keep :
                           e >= start /\ (e + 1) \notin keep /\ \A i \in start..e : i \in keep
            IN  SubSeq(str, start, end)]

\* tokens with one space between each two
OneSpaced(tokens) ==
    Concat([i \in 1..Len(tokens) |-> tokens[i] \o (IF i < Len(tokens) THEN " " ELSE "")],
           1, Len(tokens))

(***************************************************************************)
(* C25: what SanitizeInput returns holds no control character, no leading  *)
(* or trailing space and no two spaces in a row; the printable tokens of   *)
(* the input, whether a run of whitespace or a run of removed control      *)
(* characters stood between them, stand in it with exactly one space       *)
(* between them; and SanitizeInput leaves it as it is.                     *)
(***************************************************************************)
C25_Sanitized ==
    Parsed =>
        /\ \A i \in 1..Len(sanitized) : ~IsControl(Char(sanitized, i))
        /\ sanitized # "" =>
              ~IsSpace(Char(sanitized, 1)) /\ ~IsSpace(Char(sanitized, Len(sanitized)))
        /\ \A i \in 1..(Len(sanitized) - 1) :
               ~(Char(sanitized, i) = " " /\ Char(sanitized, i + 1) = " ")
        /\ sanitized = OneSpaced(PrintTokens(input))
        /\ SanitizeInput(sanitized) = sanitized

\* two tokens with only a control character between them came out with one
\* space between them
C25_Witness ==
    /\ Parsed
    /\ input = "a" \o Del \o "b"
    /\ sanitized = "a b"

(***************************************************************************)
(* The words of the claims about the cache keys and the invalidation.      *)
(***************************************************************************)

\* prefixes and parameter lists GenerateKey is called with
KeyInputs ==
    {<<prefix, <<JsonString(address), JsonBig(from)>>>> :
        prefix \in {"balance", "logs", "transactions"}, address \in {AddrA, AddrB},
        from \in {Nil, Some(0), Some(1)}}
    \cup {<<prefix, <<JsonString(address), JsonBig(from), JsonBig(to)>>>> :
        prefix \in {"balance", "logs", "transactions"}, address \in {AddrA, AddrB},
        from \in {Nil, Some(0), Some(1)}, to \in {Nil, Some(0), Some(1)}}

\* GenerateKey gives equal keys for equal inputs and for no others (a
\* property of the function alone, evaluated before the first call of the cache)
KeysSeparate ==
    (mpc = "idle" /\ lastOp.op = "New" /\ invalidated = Nil) =>
        \A a \in KeyInputs, b \in KeyInputs :
            (GenerateKey(a[1], a[2]) = GenerateKey(b[1], b[2])) <=> (a = b)

\* Execute has returned a result it found in the cache
ReturnedHit == mpc \in {"unwind", "returned"} /\ result.status = "ok" /\ result.hit

KeyPrefix == ToLower(query.Method)
KeyParams ==
    CASE query.Method = "BALANCE" -> <<JsonString(query.Address), JsonBig(query.FromBlock)>>
      [] query.Method = "LOGS" ->
           <<JsonString(query.Address), JsonBig(query.FromBlock), JsonBig(query.ToBlock)>>
      [] OTHER -> <<JsonString(query.Address), JsonBig(fromBlock), JsonBig(toBlock)>>

\* Execute has built the key of a query of a supported method
KeyBuilt ==
    /\ mpc \in {"unwind", "returned"} /\ calls["get"] > 0
    /\ queryKey = GenerateKey(KeyPrefix, KeyParams)

(***************************************************************************)
(* C27: GenerateKey with the same prefix and the same parameter values in  *)
(* another order returns the same key.                                     *)
(***************************************************************************)
C27_KeyOrderIndependent ==
    KeyBuilt =>
        \A order \in Permutations(DOMAIN KeyParams) :
            GenerateKey(KeyPrefix, [i \in DOMAIN KeyParams |-> KeyParams[order[i]]]) = queryKey

(***************************************************************************)
(* C28: InvalidateByPrefix(c, p), no other call of the cache running       *)
(* meanwhile, removes exactly the entries whose key begins with p, leaves  *)
(* every other entry as it was, and returns the number of entries it       *)
(* removed.                                                                *)
(***************************************************************************)
C28_PrefixInvalidation ==
    [][
        \A prefix \in Prefixes :
            InvalidateByPrefix(prefix) =>
                /\ DOMAIN items' = {key \in DOMAIN items : ~HasPrefix(key, prefix)}
                /\ \A key \in DOMAIN items' : items'[key] = items[key]
                /\ Val(invalidated').count = Size(items) - Size(items')
    ]_vars

\* InvalidateByPrefix(c, "balance:") has removed the entries of two BALANCE
\* queries and left another entry
C28_Witness ==
    /\ invalidated = Invalidation("InvalidateByPrefix", "balance:", 2)
    /\ Size(items) = 1
    /\ \A key \in DOMAIN items : ~HasPrefix(key, "balance:")

(***************************************************************************)
(* C29: InvalidateByAddress(c, A), called once the engine has stored       *)
(* results of queries on address A, removes every entry the engine stored  *)
(* for a query on A and returns their number, and leaves the entries of    *)
(* the other addresses as they were; the next identical query on A then    *)
(* finds nothing in the cache.                                             *)
(***************************************************************************)
C29_AddressInvalidation ==
    [][
        \A address \in {AddrA, AddrB} :
            InvalidateByAddress(address) =>
                LET cached == {key \in DOMAIN items : storedFor[key].Address = address}
                IN  /\ DOMAIN items' = DOMAIN items \ cached
                    /\ \A key \in DOMAIN items' : items'[key] = items[key]
                    /\ Val(invalidated').count = Cardinality(cached)
    ]_vars

C33_QueryReadOnly ==
    [][
        \/ \E q \in EngineQueries, hasDeadline \in BOOLEAN : Execute(q, hasDeadline)
        \/ /\ query'.Method = query.Method
           /\ query'.Address = query.Address
           /\ query'.FromBlock = query.FromBlock
           /\ query'.ToBlock = query.ToBlock
    ]_vars

\* a TRANSACTIONS query without bounds whose call has computed the default
\* window into its local bounds
C33_Witness ==
    /\ query.Method = "TRANSACTIONS" /\ query.FromBlock = Nil /\ query.ToBlock = Nil
    /\ fromBlock # Nil /\ toBlock # Nil
    /\ mpc \notin {"idle", "head"}

(***************************************************************************)
(* C35: the default window of a TRANSACTIONS query without bounds, on a    *)
(* chain of any head H >= 0, satisfies 0 <= fromBlock <= toBlock = H.      *)
(***************************************************************************)
C35_DefaultWindowValid ==
    (/\ query.Method = "TRANSACTIONS" /\ (query.FromBlock = Nil \/ query.ToBlock = Nil)
     /\ fromBlock # Nil /\ toBlock # Nil) =>
        /\ Val(toBlock) \in Heads
        /\ 0 <= Val(fromBlock)
        /\ Val(fromBlock) <= Val(toBlock)

(***************************************************************************)
(* C36: a Set on a key that is present replaces that key's value and       *)
(* expiration and nothing else: the keys of the map, and with them Size,   *)
(* and every other entry are as before, also when the map holds maxItems   *)
(* entries.                                                                *)
(***************************************************************************)
C36_OverwriteFrame ==
    [][
        \A k \in Keys, v \in Values, ttl \in TTLs, gone \in SUBSET Keys :
            (k \in DOMAIN items /\ gone \in Evictions(items) /\ Set(k, v, ttl, gone)) =>
                /\ DOMAIN items' = DOMAIN items
                /\ items'[k] = SetItem(v, ttl, now)
                /\ \A x \in DOMAIN items \ {k} : items'[x] = items[x]
    ]_vars

\* the errors of ParseQuery, in the order of the rules
RuleErrors ==
    <<"EmptyQuery", "QueryTooLong", "InvalidFormat", "UnsupportedMethod", "InvalidAddress",
      "MissingBlockBound", "InvalidFromBlock", "InvalidToBlock", "InvertedRange",
      "RangeTooLarge">>

\* the rules a sanitized line of the tokens t breaks, each rule looked at on
\* its own
RulesBroken(line, t) ==
    LET block == Len(t) >= 5 /\ ToUpper(t[5]) = "BLOCK"
        numbers == block /\ Len(t) >= 7 /\ BlockNumber(t[6]) /\ BlockNumber(t[7])
        a == SetString(t[6]).val
        b == SetString(t[7]).val
    IN  {r \in 1..10 :
            CASE r = 1 -> line = ""
              [] r = 2 -> Len(line) > 10000
              [] r = 3 -> \/ Len(t) < 4
                          \/ ToUpper(t[1]) # "SELECT"
                          \/ ToUpper(t[3]) # "FROM"
              [] r = 4 -> Len(t) >= 2 /\ ToUpper(t[2]) \notin {"BALANCE", "LOGS", "TRANSACTIONS"}
              [] r = 5 -> Len(t) >= 4 /\ ~ValidAddressToken(t[4])
              [] r = 6 -> block /\ Len(t) < 7
              [] r = 7 -> block /\ Len(t) >= 6 /\ ~BlockNumber(t[6])
              [] r = 8 -> block /\ Len(t) >= 7 /\ ~BlockNumber(t[7])
              [] r = 9 -> numbers /\ a > b
              [] r = 10 -> numbers /\ (b - a > 10000 \/ a - b > 10000)}

\* the first of a set of rules
FirstRule(rules) == CHOOSE r \in rules : \A other \in rules : r <= other

(***************************************************************************)
(* C38: for a line that breaks one or several rules, ParseQuery returns    *)
(* the error of the first rule broken in the order: empty query, query too *)
(* long, invalid format, unsupported method, invalid address, missing      *)
(* block bound, invalid from block, invalid to block, inverted range,      *)
(* range too large.                                                        *)
(***************************************************************************)
C38_ErrorPrecedence ==
    Parsed =>
        LET broken == RulesBroken(sanitized, Fields(sanitized))
        IN  broken # {} => parsed = ParseErr(RuleErrors[FirstRule(broken)])

\* a line of an unsupported method, an invalid address and a block clause
\* with one bound, rejected with the error of the method
C38_Witness ==
    /\ Parsed
    /\ {4, 5, 6} \subseteq RulesBroken(sanitized, Fields(sanitized))
    /\ parsed.err = "UnsupportedMethod"

\* the workers that are inside client.BlockByNumber
InFlight == {w \in Workers : wpc[w] = "fetch"}

\* Execute has returned the result of a scan in which no fetch failed and
\* the context was not cancelled
CleanScan ==
    /\ mpc \in {"unwind", "returned"}
    /\ query.Method = "TRANSACTIONS"
    /\ result.status = "ok" /\ ~result.hit /\ ~result.ctxErr

(***************************************************************************)
(* C34: at every moment of a range scan at most maxWorkers fetches are in  *)
(* flight; the feeder sends block numbers of [fromBlock, toBlock] in       *)
(* increasing order, each at most once, and closes blockChan once; a scan  *)
(* without error and cancellation has fetched every block of the range     *)
(* exactly once.                                                           *)
(***************************************************************************)
C34_BoundedFanOut ==
    /\ Cardinality(InFlight) <= maxWorkers
    /\ \A i \in 1..Len(scanLog.fed) :
          /\ fromBlock # Nil /\ toBlock # Nil
          /\ scanLog.fed[i] \in Val(fromBlock)..Val(toBlock)
          /\ \A j \in 1..Len(scanLog.fed) : i < j => scanLog.fed[i] < scanLog.fed[j]
    /\ scanLog.closes <= 1
    /\ (fpc = "done") => (scanLog.closes = 1 /\ blockClosed)
    /\ CleanScan =>
          /\ DOMAIN scanLog.fetched = Val(fromBlock)..Val(toBlock)
          /\ \A b \in DOMAIN scanLog.fetched : scanLog.fetched[b] = 1

\* a scan of a range of several blocks by the largest pool has returned
C34_Witness ==
    /\ CleanScan
    /\ maxWorkers = MaxWorkers
    /\ Len(scanLog.fed) >= 2
    /\ scanLog.closes = 1

\* the goroutines inside a mutation of the entry map, and those inside a read
Mutating ==
    {g \in Goroutines : gcall[g].pc \in {"write", "delete"}}
    \cup (IF spc = "sweep" THEN {"cleanupLoop"} ELSE {})
Reading == {g \in Goroutines : gcall[g].pc \in {"read", "keys"}}

\* C31: in every interleaving of the callers and the sweep at most one
\* mutation of the entry map (Set, Delete, Clear, cleanup) is in progress, and
\* none while a read (Get, Size, Keys) is; the mutex records exactly the
\* goroutines inside
C31_MutualExclusion ==
    /\ Cardinality(Mutating) <= 1
    /\ (Mutating # {} => Reading = {})
    /\ mu.writer = Mutating
    /\ mu.readers = Reading

\* two reads overlap while the sweep waits for the write lock
C31_Witness == Reading = Goroutines /\ spc = "lock" /\ items # EmptyMap

\* the keys whose entry has expired
ExpiredKeys(its, t) == {k \in DOMAIN its : Expired(its[k], t)}

\* C37: Get, Size and Keys leave the entry map as it is; a Get that finds an
\* expired entry reports not-found and the entry stays stored; Size and Keys
\* count the expired entries too, and so does the capacity check of Set: a
\* Set of a new key into a full map evicts although an entry has expired
C37_ReadsDoNotMutate ==
    [][/\ \A g \in Goroutines : RUnlock(g) =>
             /\ items' = items
             /\ (gcall[g].op = "Get" /\ gcall[g].key \in ExpiredKeys(items, now)
                    => ~lastOp'.found /\ lastOp'.value = None /\ gcall[g].key \in DOMAIN items')
             /\ (gcall[g].op = "Size"
                    => lastOp'.size = Cardinality(DOMAIN items')
                       /\ lastOp'.size >= Cardinality(ExpiredKeys(items', now)))
             /\ (gcall[g].op = "Keys" => ExpiredKeys(items', now) \subseteq lastOp'.keys)
       /\ \A g \in Goroutines :
             Unlock(g) /\ gcall[g].op = "Set" /\ gcall[g].key \notin DOMAIN items
               /\ Size(items) = maxItems /\ ExpiredKeys(items, now) # {}
             => Size(items') = maxItems /\ DOMAIN items' # DOMAIN items \cup {gcall[g].key}
      ]_vars

\* a Get has found an expired entry, which is still stored
C37_Witness ==
    /\ lastOp.op = "Get" /\ ~lastOp.found
    /\ lastOp.key \in ExpiredKeys(items, now)

\* C39: Stop completes without failure, also when it is called again, and
\* once the channel is closed no sweep removes an entry
C39_StopIdempotent ==
    [][/\ \A g \in Goroutines : Stop(g) => ~crashed'
       /\ (SweepUnlock /\ stopCleanup = "closed" => items' = items)
      ]_vars

\* C40: when InvalidateByPrefix returns, every key with the prefix that was
\* in the map when it started and that no other goroutine has Set since is
\* absent, and the count it returns is the number of entries its own Delete
\* calls removed
C40_ConcurrentInvalidation ==
    [][\A g \in Goroutines : InvalidateReturn(g) =>
          /\ (gcall[g].atStart \ gcall[g].reSet) \cap DOMAIN items' = {}
          /\ lastOp'.count = Cardinality(gcall[g].removed)
      ]_vars

\* the entry of the key k that has expired is no longer in the map
ExpiredGone(k) == k \notin ExpiredKeys(items, now)

\* C32: a sweep removes exactly the entries whose expiration has passed and
\* leaves the others as they are; with a positive interval every expired
\* entry is eventually out of the map; with the interval zero the loop is
\* never started, and an expired entry leaves the map or changes only in the
\* Set, Delete or Clear of a caller
C32_BackgroundSweep ==
    /\ [][SweepUnlock =>
            /\ DOMAIN items' = DOMAIN items \ ExpiredKeys(items, now)
            /\ \A k \in DOMAIN items' : items'[k] = items[k]]_vars
    /\ \A k \in LockKeys : (cleanupEvery > 0 /\ ~ExpiredGone(k)) ~> ExpiredGone(k)
    /\ [](cleanupEvery = 0 => spc = "none" /\ mu.writer \subseteq Goroutines)
    /\ [][cleanupEvery = 0 =>
            \A k \in ExpiredKeys(items, now) :
               (k \notin DOMAIN items' \/ items'[k] # items[k])
               => \E g \in Goroutines : Unlock(g) /\ gcall[g].op \in WriteOps]_vars

\* a sweep has removed an expired entry and left an unexpired one
C32_Witness ==
    /\ lastOp.op = "cleanup" /\ lastOp.evicted # {}
    /\ items # EmptyMap /\ ExpiredKeys(items, now) = {} /\ cleanupEvery > 0

====
